---- MODULE Spec2Model ----
(***************************************************************************)
(* A model of the `intent` tool: the version-constraint checker            *)
(* (intent/versioning.py), the version cross-check, drift classification   *)
(* and sync/check commands (intent/cli.py), the renderers                  *)
(* (intent/render_ci.py, intent/render_just.py) and the ownership-aware    *)
(* generated-file writer (intent/fs.py).                                   *)
(*                                                                         *)
(* Python strings that the code parses are sequences of one-character      *)
(* strings (<<"3", ".", "1", "2">> is "3.12"); rendered text is a sequence *)
(* of lines, each line a string.                                           *)
(***************************************************************************)
EXTENDS Integers, Sequences, FiniteSets, TLC

VARIABLES
    ver,        \* versioning: the declared version text handed to the checker
    clauses,    \* versioning: the clauses the constraint spec was written from
    spec,       \* versioning: the constraint spec text (requires-python)
    pystatus,   \* versioning: what read_pyproject_python finds in pyproject.toml
    vout,       \* versioning: what the last operation returned
    rcfg,       \* rendering: the config, as load_intent built it
    held,       \* rendering: the same config with its collections held in another order
    rout,       \* rendering: the texts the last render call produced
    conf,       \* files: the config intent.toml loads to
    fs,         \* files: the generated files on disk, path -> [exists, text]
    pyproject,  \* files: what read_pyproject_python finds, [status, value]
    out,        \* files: what the last operation did and returned
    hist,       \* files: the config of the last successful sync --write while
                \*        no file has been touched since
    doc,        \* invocations: what intent.toml holds
    probe,      \* invocations: what each declared command does when it is run
    disk,       \* invocations: the generated files and pyproject.toml on disk
    inv         \* invocations: what the last command line did and returned

vvars == <<ver, clauses, spec, pystatus, vout>>
rvars == <<rcfg, held, rout>>
fvars == <<conf, fs, pyproject, out, hist>>
cvars == <<doc, probe, disk, inv>>
vars == <<ver, clauses, spec, pystatus, vout, rcfg, held, rout, conf, fs,
          pyproject, out, hist, doc, probe, disk, inv>>

\* the variables of the other specifications, at rest
VIdle == ver = <<>> /\ clauses = <<>> /\ spec = <<>> /\ pystatus = "ok" /\ vout = [op |-> "none"]
RIdle == rcfg = <<>> /\ held = <<>> /\ rout = [kind |-> "none"]
FIdle ==
    /\ conf = <<>>
    /\ fs = <<>>
    /\ pyproject = <<>>
    /\ out = [kind |-> "none"]
    /\ hist = <<>>
CIdle == doc = <<>> /\ probe = <<>> /\ disk = <<>> /\ inv = [cmd |-> "none"]

(***************************************************************************)
(* Python string primitives, on sequences of characters.                   *)
(***************************************************************************)

\* str.isdigit() of one character (ASCII digits)
IsDigitChar(c) == c \in {"0", "1", "2", "3", "4", "5", "6", "7", "8", "9"}

\* int() of one digit character
DigitVal(c) ==
    CASE c = "0" -> 0 [] c = "1" -> 1 [] c = "2" -> 2 [] c = "3" -> 3
      [] c = "4" -> 4 [] c = "5" -> 5 [] c = "6" -> 6 [] c = "7" -> 7
      [] c = "8" -> 8 [] c = "9" -> 9

\* str.isdigit(): non-empty and every character a digit
IsDigit(s) == s # <<>> /\ \A i \in 1..Len(s) : IsDigitChar(s[i])

RECURSIVE IntOfAcc(_, _)
IntOfAcc(s, acc) ==
    IF s = <<>> THEN acc ELSE IntOfAcc(Tail(s), 10 * acc + DigitVal(Head(s)))

\* int(s) for a string of digits
IntOf(s) == IntOfAcc(s, 0)

RECURSIVE LStrip(_)
LStrip(s) == IF s # <<>> /\ Head(s) = " " THEN LStrip(Tail(s)) ELSE s

RECURSIVE RStrip(_)
RStrip(s) ==
    IF s # <<>> /\ s[Len(s)] = " " THEN RStrip(SubSeq(s, 1, Len(s) - 1)) ELSE s

\* str.strip()
Strip(s) == RStrip(LStrip(s))

RECURSIVE SplitAcc(_, _, _, _)
SplitAcc(s, sep, cur, acc) ==
    IF s = <<>> THEN Append(acc, cur)
    ELSE IF Head(s) = sep THEN SplitAcc(Tail(s), sep, <<>>, Append(acc, cur))
    ELSE SplitAcc(Tail(s), sep, Append(cur, Head(s)), acc)

\* str.split(sep) for a one-character separator: "a,,b" -> ["a", "", "b"]
Split(s, sep) == SplitAcc(s, sep, <<>>, <<>>)

\* str.startswith(prefix)
StartsWith(s, prefix) ==
    Len(s) >= Len(prefix) /\ SubSeq(s, 1, Len(prefix)) = prefix

\* s[n:]
Drop(s, n) == SubSeq(s, n + 1, Len(s))

\* iterating a str yields its one-character strings
StrItems(s) == [i \in 1..Len(s) |-> <<s[i]>>]

\* any(ch in s for ch in chars)
AnyCharIn(s, chars) == \E i \in 1..Len(s) : s[i] \in chars

(***************************************************************************)
(* intent/versioning.py                                                    *)
(***************************************************************************)

\* Python None where a version tuple is expected (parse_version never
\* returns an empty tuple)
NoVersion == <<>>

RECURSIVE ParseParts(_, _)
ParseParts(rawParts, parts) ==
    IF rawParts = <<>> THEN parts
    ELSE LET part == Strip(Head(rawParts)) IN
         IF part = <<>> THEN parts                       \* break
         ELSE IF ~IsDigit(part) THEN NoVersion           \* return None
         ELSE ParseParts(Tail(rawParts), Append(parts, IntOf(part)))

parse_version(version) ==
    LET v == Strip(version) IN
    IF v = <<>> THEN NoVersion ELSE ParseParts(Split(v, "."), <<>>)

RECURSIVE TupleLess(_, _)
\* Python's a < b on tuples of ints: lexicographic, a proper prefix is smaller
TupleLess(a, b) ==
    IF b = <<>> THEN FALSE
    ELSE IF a = <<>> THEN TRUE
    ELSE IF Head(a) # Head(b) THEN Head(a) < Head(b)
    ELSE TupleLess(Tail(a), Tail(b))

RECURSIVE MaxLowerLoop(_, _)
\* a faulty variant: the first bound found is kept
MaxLowerLoop_KeepsFirst(constraints, best) ==
    IF constraints = <<>> THEN best
    ELSE LET c == Strip(Head(constraints))
             bound == parse_version(Strip(Drop(c, 2)))
         IN IF StartsWith(c, <<">", "=">>) /\ bound # NoVersion /\ best = NoVersion
            THEN MaxLowerLoop(Tail(constraints), bound)
            ELSE MaxLowerLoop(Tail(constraints), best)

MaxLowerLoop(constraints, best) ==
    IF constraints = <<>> THEN best
    ELSE LET c == Strip(Head(constraints))
             bound == parse_version(Strip(Drop(c, 2)))
         IN IF StartsWith(c, <<">", "=">>) /\ bound # NoVersion
               /\ (best = NoVersion \/ TupleLess(best, bound))
            THEN MaxLowerLoop(Tail(constraints), bound)
            ELSE MaxLowerLoop(Tail(constraints), best)

\* constraints is whatever the caller iterates: a list of clause strings
max_lower_bound(constraints) == MaxLowerLoop(constraints, NoVersion)

\* [c.strip() for c in spec.split(",") if c.strip()]
RECURSIVE StripNonEmpty(_)
StripNonEmpty(parts) ==
    IF parts = <<>> THEN <<>>
    ELSE IF Strip(Head(parts)) = <<>> THEN StripNonEmpty(Tail(parts))
    ELSE <<Strip(Head(parts))>> \o StripNonEmpty(Tail(parts))

RECURSIVE RangeLoop(_, _, _, _)
\* a faulty variant: the upper bound is taken as inclusive
RangeLoop_InclusiveUpper(intent_parsed, constraints, supported, ok) ==
    IF constraints = <<>> THEN IF supported THEN (IF ok THEN "True" ELSE "False") ELSE "None"
    ELSE LET c == Head(constraints)
             rest == Tail(constraints)
         IN IF StartsWith(c, <<">", "=">>)
            THEN LET bound_parsed == parse_version(Strip(Drop(c, 2))) IN
                 IF bound_parsed = NoVersion
                 THEN RangeLoop(intent_parsed, rest, FALSE, ok)
                 ELSE RangeLoop(intent_parsed, rest, supported,
                                ok /\ ~TupleLess(intent_parsed, bound_parsed))
            ELSE IF StartsWith(c, <<"<">>)
            THEN LET bound_parsed == parse_version(Strip(Drop(c, 1))) IN
                 IF bound_parsed = NoVersion
                 THEN RangeLoop(intent_parsed, rest, FALSE, ok)
                 ELSE RangeLoop(intent_parsed, rest, supported,
                                ok /\ ~TupleLess(bound_parsed, intent_parsed))
            ELSE RangeLoop(intent_parsed, rest, FALSE, ok)

RangeLoop(intent_parsed, constraints, supported, ok) ==
    IF constraints = <<>> THEN IF supported THEN (IF ok THEN "True" ELSE "False") ELSE "None"
    ELSE LET c == Head(constraints)
             rest == Tail(constraints)
         IN IF StartsWith(c, <<">", "=">>)
            THEN LET bound_parsed == parse_version(Strip(Drop(c, 2))) IN
                 IF bound_parsed = NoVersion
                 THEN RangeLoop(intent_parsed, rest, FALSE, ok)
                 ELSE RangeLoop(intent_parsed, rest, supported,
                                ok /\ ~TupleLess(intent_parsed, bound_parsed))
            ELSE IF StartsWith(c, <<"<">>)
            THEN LET bound_parsed == parse_version(Strip(Drop(c, 1))) IN
                 IF bound_parsed = NoVersion
                 THEN RangeLoop(intent_parsed, rest, FALSE, ok)
                 ELSE RangeLoop(intent_parsed, rest, supported,
                                ok /\ TupleLess(intent_parsed, bound_parsed))
            ELSE RangeLoop(intent_parsed, rest, FALSE, ok)

\* "True" / "False" / "None" (unsupported)
check_requires_python_range(intent_version, spc) ==
    LET intent_parsed == parse_version(intent_version)
        constraints == StripNonEmpty(Split(spc, ","))
    IN IF intent_parsed = NoVersion THEN "None"
       ELSE IF constraints = <<>> THEN "None"
       ELSE RangeLoop(intent_parsed, constraints, TRUE, TRUE)

\* packaging's Version, as far as the cross-check uses it: the release
\* numbers, compared as if the shorter were padded with zeros
NoPep440 == [valid |-> FALSE, release |-> <<>>]

RECURSIVE StripZeros(_)
StripZeros(t) ==
    IF t # <<>> /\ t[Len(t)] = 0 THEN StripZeros(SubSeq(t, 1, Len(t) - 1)) ELSE t

parse_pep440_version(version) ==
    LET parts == Split(Strip(version), ".") IN
    IF \A i \in 1..Len(parts) : IsDigit(parts[i])
    THEN [valid |-> TRUE, release |-> StripZeros([i \in 1..Len(parts) |-> IntOf(parts[i])])]
    ELSE NoPep440

\* lower < intent_parsed
VersionLess(lower, parsed) == TupleLess(StripZeros(lower), parsed.release)

(***************************************************************************)
(* intent/cli.py: the version cross-check                                  *)
(***************************************************************************)

ERR_VERSION == "INTENT101"
NoCode == "None"

VResult(ok, kind, note, code) == [ok |-> ok, kind |-> kind, note |-> note, code |-> code]

\* the range branch of _check_versions, after the spec was read
CheckRangeSpec(cfg_python, spc, strict) ==
    LET result == check_requires_python_range(cfg_python, spc)
        intent_parsed == parse_pep440_version(cfg_python)
        lower == max_lower_bound(StrItems(spc))
    IN IF result = "False" THEN VResult(FALSE, "mismatch_range", FALSE, ERR_VERSION)
       ELSE IF result = "None"
       THEN IF strict THEN VResult(FALSE, "unsupported", FALSE, ERR_VERSION)
            ELSE VResult(TRUE, "unsupported", TRUE, NoCode)
       ELSE IF ~intent_parsed.valid THEN VResult(TRUE, "unparsed_intent", TRUE, NoCode)
       ELSE IF lower # NoVersion /\ VersionLess(lower, intent_parsed)
       THEN IF strict THEN VResult(FALSE, "broader", FALSE, ERR_VERSION)
            ELSE VResult(TRUE, "broader", TRUE, NoCode)
       ELSE VResult(TRUE, "ok_range", FALSE, NoCode)

\* the simple-spec branch of _check_versions: no operator, equality
CheckSimpleSpec(cfg_python, spc, strict) ==
    LET spec_version == parse_pep440_version(spc)
        cfg_version == parse_pep440_version(cfg_python)
    IN IF ~spec_version.valid
       THEN IF strict THEN VResult(FALSE, "unsupported", FALSE, ERR_VERSION)
            ELSE VResult(TRUE, "unsupported", TRUE, NoCode)
       ELSE IF cfg_version.valid /\ spec_version = cfg_version
       THEN VResult(TRUE, "match_simple", FALSE, NoCode)
       ELSE VResult(FALSE, "mismatch_simple", FALSE, ERR_VERSION)

\* status, pyproject_version: what read_pyproject_python() returned
_check_versions(cfg_python, strict, status, pyproject_version) ==
    IF status = "file_missing" THEN VResult(TRUE, "skipped_file_missing", TRUE, NoCode)
    ELSE IF status = "project_missing" THEN VResult(TRUE, "skipped_project_missing", TRUE, NoCode)
    ELSE IF status = "requires_python_missing"
    THEN VResult(TRUE, "skipped_not_set", TRUE, NoCode)
    ELSE IF status = "invalid"
    THEN IF strict THEN VResult(FALSE, "invalid", FALSE, ERR_VERSION)
         ELSE VResult(TRUE, "invalid", TRUE, NoCode)
    ELSE LET spc == Strip(pyproject_version) IN
         IF ~AnyCharIn(spc, {"<", ">", ",", "="})
         THEN CheckSimpleSpec(cfg_python, spc, strict)
         ELSE CheckRangeSpec(cfg_python, spc, strict)

(***************************************************************************)
(* Rendered text.  A text is the sequence of its lines; a dict is the      *)
(* sequence of its [key, value] items in the order the dict holds them.    *)
(***************************************************************************)

\* the ownership marker line of intent/fs.py
GENERATED_MARKER == "# GENERATED BY INTENT"

\* every string the renderers sort, in Python's (code point) order
SortOrder ==
    << "CI", "TZ", "arch", "audit", "build", "eval", "lint", "name", "os", "path", "python-version",
       "retention-days", "test" >>

Rank(name) == CHOOSE i \in 1..Len(SortOrder) : SortOrder[i] = name

RECURSIVE InsertSorted(_, _)
InsertSorted(sorted, x) ==
    IF sorted = <<>> THEN <<x>>
    ELSE IF Rank(x) < Rank(Head(sorted)) THEN <<x>> \o sorted
    ELSE <<Head(sorted)>> \o InsertSorted(Tail(sorted), x)

RECURSIVE Sorted(_)
\* sorted(list of strings)
Sorted(list) ==
    IF list = <<>> THEN <<>>
    ELSE InsertSorted(Sorted(SubSeq(list, 1, Len(list) - 1)), list[Len(list)])

\* list(d) / iterating a dict: its keys in held order
Keys(d) == [i \in 1..Len(d) |-> d[i].key]

\* d[key]
Lookup(d, key) == d[CHOOSE i \in 1..Len(d) : d[i].key = key].value

RECURSIVE Join(_, _)
\* sep.join(list of strings)
Join(list, sep) ==
    IF list = <<>> THEN ""
    ELSE IF Len(list) = 1 THEN list[1]
    ELSE list[1] \o sep \o Join(Tail(list), sep)

RECURSIVE Flatten(_)
\* the string a sequence of characters spells
Flatten(chars) == IF chars = <<>> THEN "" ELSE Head(chars) \o Flatten(Tail(chars))

RECURSIVE RStripLines(_)
\* "\n".join(lines).rstrip() + "\n": trailing blank lines go
RStripLines(lines) ==
    IF lines # <<>> /\ lines[Len(lines)] = ""
    THEN RStripLines(SubSeq(lines, 1, Len(lines) - 1))
    ELSE lines

\* a scalar value of the config: [kind |-> "str" | "bool" | "num", text |-> its str()]
_yaml_scalar(value) ==
    IF value.kind = "bool" THEN value.text
    ELSE IF value.kind = "num" THEN value.text
    ELSE "\"" \o value.text \o "\""

StrVal(text) == [kind |-> "str", text |-> text]

\* a CiStep; an absent string field is "", run is absent unless hasRun
CiStep(name, hasRun, run, command, uses, with_args, if_condition, coe, wd, env) ==
    [name |-> name, hasRun |-> hasRun, run |-> run, command |-> command,
     uses |-> uses, with_args |-> with_args, if_condition |-> if_condition,
     continue_on_error |-> coe, working_directory |-> wd, env |-> env]

UsesStep(uses, with_args) == CiStep("", FALSE, <<>>, "", uses, with_args, "", FALSE, "", <<>>)
RunStep(run) == CiStep("", TRUE, run, "", "", <<>>, "", FALSE, "", <<>>)

\* the lines "{indent}    {key}: {scalar}" for the sorted keys of a dict
DictLines(d, indent) ==
    LET ks == Sorted(Keys(d)) IN
    [i \in 1..Len(ks) |-> indent \o "    " \o ks[i] \o ": " \o _yaml_scalar(Lookup(d, ks[i]))]

Prefixed(lines, prefix) == [i \in 1..Len(lines) |-> prefix \o lines[i]]

_append_step(lines, step, commands, indent) ==
    LET head ==
            <<indent \o "-">>
            \o (IF step.name # "" THEN <<indent \o "  name: " \o step.name>> ELSE <<>>)
            \o (IF step.if_condition # ""
                THEN <<indent \o "  if: " \o step.if_condition>> ELSE <<>>)
            \o (IF step.continue_on_error
                THEN <<indent \o "  continue-on-error: true">> ELSE <<>>)
            \o (IF step.working_directory # ""
                THEN <<indent \o "  working-directory: " \o step.working_directory>>
                ELSE <<>>)
            \o (IF step.env # <<>>
                THEN <<indent \o "  env:">> \o DictLines(step.env, indent) ELSE <<>>)
        command_text == IF step.hasRun THEN step.run ELSE Lookup(commands, step.command)
    IN IF step.uses # ""
       THEN lines \o head \o <<indent \o "  uses: " \o step.uses>>
            \o (IF step.with_args # <<>>
                THEN <<indent \o "  with:">> \o DictLines(step.with_args, indent)
                ELSE <<>>)
       ELSE lines \o head \o <<indent \o "  run: |">>
            \o Prefixed(command_text, indent \o "    ")

RECURSIVE AppendSteps(_, _, _)
AppendSteps(lines, steps, commands) ==
    IF steps = <<>> THEN lines
    ELSE AppendSteps(_append_step(lines, Head(steps), commands, "      "),
                     Tail(steps), commands)

\* a faulty variant: the needs are emitted in held order
NeedsLines_Unsorted(job) ==
    IF job.needs # <<>>
    THEN <<"    needs: [" \o Join(job.needs, ", ") \o "]">>
    ELSE <<>>

\* the needs line of a custom job
NeedsLines(job) ==
    IF job.needs # <<>>
    THEN <<"    needs: [" \o Join(Sorted(job.needs), ", ") \o "]">>
    ELSE <<>>

\* the strategy block of a custom job
MatrixLines(job) ==
    IF job.matrix # <<>>
    THEN LET ks == Sorted(Keys(job.matrix)) IN
         <<"    strategy:", "      fail-fast: false", "      matrix:">>
         \o [i \in 1..Len(ks) |->
                LET vs == Lookup(job.matrix, ks[i]) IN
                "        " \o ks[i] \o ": ["
                \o Join([j \in 1..Len(vs) |-> _yaml_scalar(vs[j])], ", ") \o "]"]
    ELSE <<>>

_append_custom_job(lines, job, commands) ==
    AppendSteps(
        lines
        \o <<"  " \o job.name \o ":", "    runs-on: " \o job.runs_on>>
        \o (IF job.if_condition # "" THEN <<"    if: " \o job.if_condition>> ELSE <<>>)
        \o (IF job.continue_on_error THEN <<"    continue-on-error: true">> ELSE <<>>)
        \o (IF job.timeout_minutes # ""
            THEN <<"    timeout-minutes: " \o job.timeout_minutes>> ELSE <<>>)
        \o NeedsLines(job)
        \o MatrixLines(job)
        \o <<"    steps:">>,
        job.steps, commands) \o <<"">>

WhenToIf(when) ==
    CASE when = "always" -> "${{ always() }}"
      [] when = "on-failure" -> "${{ failure() }}"
      [] when = "on-success" -> "${{ success() }}"

RECURSIVE _append_artifact_steps(_, _, _)
_append_artifact_steps(lines, artifacts, indent) ==
    IF artifacts = <<>> THEN lines
    ELSE LET artifact == Head(artifacts) IN
         _append_artifact_steps(
            lines
            \o << indent \o "-",
                  indent \o "  name: Upload artifact: " \o artifact.name,
                  indent \o "  if: " \o WhenToIf(artifact.when),
                  indent \o "  uses: actions/upload-artifact@v4",
                  indent \o "  with:",
                  indent \o "    name: " \o _yaml_scalar(StrVal(artifact.name)),
                  indent \o "    path: " \o _yaml_scalar(StrVal(artifact.path)) >>
            \o (IF artifact.retention_days # ""
                THEN <<indent \o "    retention-days: " \o artifact.retention_days>>
                ELSE <<>>),
            Tail(artifacts), indent)

_summary_step ==
    CiStep("Write intent summary", TRUE,
           << "intent check --format json > intent-check.json || true",
              "python - <<'PY'",
              "import json",
              "from pathlib import Path",
              "payload = json.loads(Path('intent-check.json').read_text(encoding='utf-8'))",
              "report = payload.get('report') or {}",
              "summary = report.get('summary_markdown')",
              "if summary:",
              "    github_summary = Path('${GITHUB_STEP_SUMMARY}')",
              "    github_summary.write_text(summary + '\\n', encoding='utf-8')",
              "PY" >>,
           "", "", <<>>, "${{ always() }}", FALSE, "", <<>>)

\* the upload step render_ci appends to every custom job for an artifact
ArtifactStep(artifact) ==
    CiStep("Upload artifact: " \o artifact.name, FALSE, <<>>, "",
           "actions/upload-artifact@v4",
           << [key |-> "name", value |-> StrVal(artifact.name)],
              [key |-> "path", value |-> StrVal(artifact.path)] >>
           \o (IF artifact.retention_days # ""
               THEN <<[key |-> "retention-days", value |-> StrVal(artifact.retention_days)]>>
               ELSE <<>>),
           WhenToIf(artifact.when), FALSE, "", <<>>)

RECURSIVE AppendCustomJobs(_, _, _)
AppendCustomJobs(lines, jobs, cfg) ==
    IF jobs = <<>> THEN lines
    ELSE LET job == Head(jobs)
             copied_job ==
                 [job EXCEPT !.steps =
                     job.steps \o [i \in 1..Len(cfg.ci_artifacts) |->
                                      ArtifactStep(cfg.ci_artifacts[i])]]
         IN AppendCustomJobs(_append_custom_job(lines, copied_job, cfg.commands),
                             Tail(jobs), cfg)

\* the synthesized summary job of render_ci
SummaryJob(cfg) ==
    [name |-> "intent_summary", runs_on |-> "ubuntu-latest",
     needs |-> Sorted([i \in 1..Len(cfg.ci_jobs) |-> cfg.ci_jobs[i].name]),
     if_condition |-> "", timeout_minutes |-> "", continue_on_error |-> FALSE,
     matrix |-> <<>>,
     steps |-> << UsesStep("actions/checkout@v4", <<>>),
                  UsesStep("actions/setup-python@v5",
                           <<[key |-> "python-version",
                              value |-> StrVal(Flatten(cfg.python_version))]>>),
                  RunStep(<<"python -m pip install -U pip",
                            "python -m pip install -e .[dev]">>),
                  _summary_step >>]

RECURSIVE CommandSteps(_)
\* the default job's step for each command, in the order the table holds them
CommandSteps(commands) ==
    IF commands = <<>> THEN <<>>
    ELSE <<"      - name: " \o Head(commands).key, "        run: |">>
         \o Prefixed(Head(commands).value, "          ")
         \o <<"">>
         \o CommandSteps(Tail(commands))

SummaryEnabled(cfg) == cfg.ci_summary.present /\ cfg.ci_summary.enabled

render_ci(cfg) ==
    LET triggers == IF cfg.ci_triggers # <<>> THEN cfg.ci_triggers ELSE <<"push">>
        top == << GENERATED_MARKER, "# DO NOT EDIT", "",
                  "name: CI", "on: [" \o Join(triggers, ", ") \o "]", "", "jobs:" >>
    IN IF cfg.ci_jobs # <<>>
       THEN LET withJobs == AppendCustomJobs(top, cfg.ci_jobs, cfg) IN
            RStripLines(IF SummaryEnabled(cfg)
                        THEN _append_custom_job(withJobs, SummaryJob(cfg), cfg.commands)
                        ELSE withJobs)
       ELSE LET versions ==
                    Join([i \in 1..Len(cfg.ci_python_versions) |->
                             "\"" \o cfg.ci_python_versions[i] \o "\""], ", ")
                body ==
                    top
                    \o <<"  ci:", "    runs-on: ubuntu-latest">>
                    \o (IF cfg.ci_python_versions # <<>>
                        THEN << "    strategy:", "      fail-fast: false", "      matrix:",
                                "        python-version: [" \o versions \o "]" >>
                        ELSE <<>>)
                    \o << "    steps:", "      - uses: actions/checkout@v4",
                          "      - uses: actions/setup-python@v5", "        with:" >>
                    \o (IF cfg.ci_python_versions # <<>>
                        THEN <<"          python-version: ${{ matrix.python-version }}">>
                        ELSE <<"          python-version: \""
                               \o Flatten(cfg.python_version) \o "\"">>)
                    \o (IF cfg.ci_cache = "pip" THEN <<"          cache: pip">> ELSE <<>>)
                    \o << "", "      - name: Install dependencies", "        run: |",
                          "          python -m pip install -U pip",
                          "          python -m pip install " \o cfg.ci_install, "" >>
                    \o CommandSteps(cfg.commands)
                withArtifacts == _append_artifact_steps(body, cfg.ci_artifacts, "      ")
            IN RStripLines(IF SummaryEnabled(cfg)
                           THEN _append_step(withArtifacts, _summary_step,
                                             cfg.commands, "      ")
                           ELSE withArtifacts)

RECURSIVE Recipes(_)
\* the recipe of each command, in the order the table holds them
Recipes(commands) ==
    IF commands = <<>> THEN <<>>
    ELSE << Head(commands).key \o ":", "    " \o Join(Head(commands).value, "\n"), "" >>
         \o Recipes(Tail(commands))

\* a faulty variant: the banner is emitted before the marker
render_just_BannerFirst(cfg) ==
    RStripLines(<< "# DO NOT EDIT", GENERATED_MARKER, "", "default:", "    @just --list", "" >>
                \o Recipes(cfg.commands))

render_just(cfg) ==
    RStripLines(<< GENERATED_MARKER, "# DO NOT EDIT", "", "default:", "    @just --list", "" >>
                \o Recipes(cfg.commands))

(***************************************************************************)
(* The rendering specification: a config is drawn, held in some order of   *)
(* its needs lists and dict keys, and rendered.                            *)
(***************************************************************************)

V311 == <<"3", ".", "1", "1">>
V312 == <<"3", ".", "1", "2">>

CmdTest == [key |-> "test", value |-> <<"pytest -q">>]
CmdLint == [key |-> "lint", value |-> <<"ruff check .", "ruff format --check .">>]

CommandStep(command) == CiStep("", FALSE, <<>>, command, "", <<>>, "", FALSE, "", <<>>)

JobLint ==
    [name |-> "lint", runs_on |-> "ubuntu-latest", needs |-> <<>>, if_condition |-> "",
     timeout_minutes |-> "10", continue_on_error |-> TRUE, matrix |-> <<>>,
     steps |-> <<UsesStep("actions/checkout@v4", <<>>), RunStep(<<"ruff check .">>)>>]

JobBuild ==
    [name |-> "build", runs_on |-> "ubuntu-latest", needs |-> <<"lint">>,
     if_condition |-> "", timeout_minutes |-> "", continue_on_error |-> FALSE,
     matrix |-> <<>>,
     steps |-> <<UsesStep("actions/checkout@v4", <<>>)>>]

JobTest ==
    [name |-> "test", runs_on |-> "${{ matrix.os }}", needs |-> <<"build", "lint">>,
     if_condition |-> "${{ success() }}", timeout_minutes |-> "", continue_on_error |-> FALSE,
     matrix |-> << [key |-> "os", value |-> <<StrVal("ubuntu-latest"), StrVal("macos-latest")>>],
                   [key |-> "arch", value |-> <<StrVal("x64"), [kind |-> "num", text |-> "32"]>>] >>,
     steps |-> << UsesStep("actions/cache@v4",
                           << [key |-> "path", value |-> StrVal("~/.cache/pip")],
                              [key |-> "name", value |-> StrVal("pip")] >>),
                  CiStep("Run tests", FALSE, <<>>, "test", "", <<>>, "", FALSE, "src",
                         << [key |-> "TZ", value |-> StrVal("UTC")],
                            [key |-> "CI", value |-> [kind |-> "bool", text |-> "true"]] >>) >>]

ArtReport == [name |-> "report", path |-> "report.xml", retention_days |-> "7", when |-> "always"]
ArtLogs == [name |-> "logs", path |-> "logs/", retention_days |-> "", when |-> "on-failure"]

NoSummary == [present |-> FALSE, enabled |-> FALSE]

RenderConfigs ==
    [ python_version : {V311, V312},
      commands : { <<CmdTest>>, <<CmdTest, CmdLint>> },
      ci_install : {"-e .[dev]"},
      ci_cache : {"none", "pip"},
      ci_python_versions : { <<>>, <<"3.11", "3.12">> },
      ci_triggers : { <<>>, <<"push", "pull_request">> },
      ci_jobs : { <<>>, <<JobLint>>, <<JobLint, JobBuild, JobTest>> },
      ci_artifacts : { <<>>, <<ArtReport, ArtLogs>> },
      ci_summary : { NoSummary, [present |-> TRUE, enabled |-> TRUE],
                     [present |-> TRUE, enabled |-> FALSE] } ]

\* every order a list can be held in
Perms(list) ==
    LET n == Len(list)
        bij == { f \in [1..n -> 1..n] : \A i, j \in 1..n : f[i] = f[j] => i = j }
    IN { [i \in 1..n |-> list[f[i]]] : f \in bij }

RECURSIVE Product(_)
\* the sequences that take their i-th element from the i-th set
Product(sets) ==
    IF sets = <<>> THEN {<<>>}
    ELSE { <<h>> \o t : h \in Head(sets), t \in Product(Tail(sets)) }

ReorderStep(step) ==
    { [step EXCEPT !.env = e, !.with_args = w] :
        e \in Perms(step.env), w \in Perms(step.with_args) }

ReorderSteps(steps) == Product([i \in 1..Len(steps) |-> ReorderStep(steps[i])])

ReorderJob(job) ==
    { [job EXCEPT !.needs = n, !.matrix = m, !.steps = st] :
        n \in Perms(job.needs), m \in Perms(job.matrix), st \in ReorderSteps(job.steps) }

\* the configs that differ from cfg only in the order its needs lists, matrix
\* keys, step env keys and step with keys are held
Reorderings(cfg) ==
    { [cfg EXCEPT !.ci_jobs = js] :
        js \in Product([i \in 1..Len(cfg.ci_jobs) |-> ReorderJob(cfg.ci_jobs[i])]) }

NoRender == [kind |-> "none"]

RInit ==
    /\ rcfg \in RenderConfigs
    /\ held = rcfg
    /\ rout = NoRender
    /\ VIdle
    /\ FIdle
    /\ CIdle

\* the same config value reaches the renderer with its collections in another order
Rehold ==
    /\ rout = NoRender
    /\ held = rcfg
    /\ held' \in Reorderings(rcfg) \ {rcfg}
    /\ UNCHANGED <<rcfg, rout, vvars, fvars, cvars>>

RenderCi ==
    /\ rout = NoRender
    /\ rout' = [kind |-> "ci", a |-> render_ci(rcfg), b |-> render_ci(held)]
    /\ UNCHANGED <<rcfg, held, vvars, fvars, cvars>>

RenderJust ==
    /\ rout = NoRender
    /\ rout' = [kind |-> "just", a |-> render_just(rcfg), b |-> render_just(held)]
    /\ UNCHANGED <<rcfg, held, vvars, fvars, cvars>>

RNext == Rehold \/ RenderCi \/ RenderJust

SpecRender == RInit /\ [][RNext]_vars

(***************************************************************************)
(* intent/fs.py: the ownership-aware writer                                *)
(***************************************************************************)

\* the lines of the modelled texts that contain the marker as a substring
MarkerLines == { GENERATED_MARKER, "# see " \o GENERATED_MARKER }

\* GENERATED_MARKER in text
HasMarker(text) == \E i \in 1..Len(text) : text[i] \in MarkerLines

Absent == [exists |-> FALSE, text |-> <<>>]
File(text) == [exists |-> TRUE, text |-> text]

NoError == [type |-> "none", path |-> "", mode |-> ""]

\* a faulty variant: the marker check comes after an absent file is created
write_generated_file_LateMarkerCheck(path, existing, content, mode) ==
    IF ~existing.exists
    THEN [result |-> "created", after |-> File(content), error |-> NoError]
    ELSE IF ~HasMarker(content)
    THEN [result |-> "ValueError", after |-> existing,
          error |-> [type |-> "ValueError: missing marker", path |-> path, mode |-> mode]]
    ELSE IF existing.text = content
    THEN [result |-> "unchanged", after |-> existing, error |-> NoError]
    ELSE IF ~HasMarker(existing.text) /\ mode # "force"
    THEN [result |-> "OwnershipError", after |-> existing,
          error |-> [type |-> "OwnershipError", path |-> path, mode |-> mode]]
    ELSE [result |-> "updated", after |-> File(content), error |-> NoError]

\* a faulty variant: an existing owned file is rewritten without comparing
write_generated_file_NoCompare(path, existing, content, mode) ==
    IF ~HasMarker(content)
    THEN [result |-> "ValueError", after |-> existing,
          error |-> [type |-> "ValueError: missing marker", path |-> path, mode |-> mode]]
    ELSE IF ~existing.exists
    THEN [result |-> "created", after |-> File(content), error |-> NoError]
    ELSE IF ~HasMarker(existing.text) /\ mode # "force"
    THEN [result |-> "OwnershipError", after |-> existing,
          error |-> [type |-> "OwnershipError", path |-> path, mode |-> mode]]
    ELSE [result |-> "updated", after |-> File(content), error |-> NoError]

\* existing is the file at path before the call; the result names what the
\* call returned or raised, and after is the file it leaves
write_generated_file(path, existing, content, mode) ==
    IF ~HasMarker(content)
    THEN [result |-> "ValueError", after |-> existing,
          error |-> [type |-> "ValueError: missing marker", path |-> path, mode |-> mode]]
    ELSE IF ~existing.exists
    THEN [result |-> "created", after |-> File(content), error |-> NoError]
    ELSE IF existing.text = content
    THEN [result |-> "unchanged", after |-> existing, error |-> NoError]
    ELSE IF ~HasMarker(existing.text) /\ mode # "force"
    THEN [result |-> "OwnershipError", after |-> existing,
          error |-> [type |-> "OwnershipError", path |-> path, mode |-> mode]]
    ELSE [result |-> "updated", after |-> File(content), error |-> NoError]

(***************************************************************************)
(* intent/cli.py: drift status, sync and check                             *)
(***************************************************************************)

ERR_FILE_MISSING == "INTENT201"
ERR_FILE_UNOWNED == "INTENT202"
ERR_FILE_OUTDATED == "INTENT203"

CiPath == ".github/workflows/ci.yml"
JustPath == "justfile"
Paths == {CiPath, JustPath}

\* a faulty variant: the content is compared before the marker is looked for
_generated_drift_status_ContentFirst(file, new_content) ==
    IF ~file.exists THEN [ok |-> FALSE, msg |-> "is missing", code |-> ERR_FILE_MISSING]
    ELSE IF file.text # new_content
    THEN [ok |-> FALSE, msg |-> "is out of date", code |-> ERR_FILE_OUTDATED]
    ELSE IF ~HasMarker(file.text)
    THEN [ok |-> FALSE, msg |-> "exists but is not tool-owned (missing marker)",
          code |-> ERR_FILE_UNOWNED]
    ELSE [ok |-> TRUE, msg |-> "is up to date", code |-> NoCode]

\* file is the file at path; (ok, message, code)
_generated_drift_status(file, new_content) ==
    IF ~file.exists THEN [ok |-> FALSE, msg |-> "is missing", code |-> ERR_FILE_MISSING]
    ELSE IF ~HasMarker(file.text)
    THEN [ok |-> FALSE, msg |-> "exists but is not tool-owned (missing marker)",
          code |-> ERR_FILE_UNOWNED]
    ELSE IF file.text # new_content
    THEN [ok |-> FALSE, msg |-> "is out of date", code |-> ERR_FILE_OUTDATED]
    ELSE [ok |-> TRUE, msg |-> "is up to date", code |-> NoCode]

\* a faulty variant: the preview does not look for the marker
_preview_status_NoOwnership(file, new_content) ==
    IF ~file.exists THEN "Would write"
    ELSE IF file.text = new_content THEN "No changes"
    ELSE "Would update"

\* the line sync --dry-run prints for one generated file, without the path
_preview_status(file, new_content) ==
    IF ~file.exists THEN "Would write"
    ELSE IF ~HasMarker(file.text)
    THEN "Cannot update: exists but is not tool-owned (missing marker)"
    ELSE IF file.text = new_content THEN "No changes"
    ELSE "Would update"

\* the renderer of each managed path
Render(path, c) == IF path = CiPath THEN render_ci(c) ELSE render_just(c)

\* a faulty variant: --adopt overwrites like --force
SyncMode_AdoptForces(adopt, force) == IF adopt \/ force THEN "force" ELSE "strict"

\* sync: mode = "strict" if not adopt and not force
SyncMode(adopt, force) == IF adopt THEN "adopt" ELSE IF force THEN "force" ELSE "strict"

\* a faulty variant: the workflow is put back when the justfile's write raises
SyncWrites_RollsBack(files, ci_content, just_content, mode) ==
    LET ci == write_generated_file(CiPath, files[CiPath], ci_content, mode)
        just == write_generated_file(JustPath, files[JustPath], just_content, mode)
        raised(w) == w.result \in {"OwnershipError", "ValueError"}
    IN IF raised(ci) \/ raised(just)
       THEN [files |-> files, ci |-> ci.result,
             just |-> IF raised(ci) THEN "not reached" ELSE just.result,
             error |-> IF raised(ci) THEN ci.error ELSE just.error]
       ELSE [files |-> [[files EXCEPT ![CiPath] = ci.after] EXCEPT ![JustPath] = just.after],
             ci |-> ci.result, just |-> just.result, error |-> just.error]

\* a faulty variant: the justfile is written with the workflow's content
SyncWrites_SameContent(files, ci_content, just_content, mode) ==
    LET ci == write_generated_file(CiPath, files[CiPath], ci_content, mode)
        just == write_generated_file(JustPath, files[JustPath], ci_content, mode)
        raised(w) == w.result \in {"OwnershipError", "ValueError"}
    IN IF raised(ci)
       THEN [files |-> files, ci |-> ci.result, just |-> "not reached", error |-> ci.error]
       ELSE [files |-> [[files EXCEPT ![CiPath] = ci.after] EXCEPT ![JustPath] = just.after],
             ci |-> ci.result, just |-> just.result, error |-> just.error]

\* the write block of sync: returns the files and the two results; the second
\* write is not reached when the first raises
SyncWrites(files, ci_content, just_content, mode) ==
    LET ci == write_generated_file(CiPath, files[CiPath], ci_content, mode)
        just == write_generated_file(JustPath, files[JustPath], just_content, mode)
        raised(w) == w.result \in {"OwnershipError", "ValueError"}
    IN IF raised(ci)
       THEN [files |-> files, ci |-> ci.result, just |-> "not reached", error |-> ci.error]
       ELSE [files |-> [[files EXCEPT ![CiPath] = ci.after] EXCEPT ![JustPath] = just.after],
             ci |-> ci.result, just |-> just.result, error |-> just.error]

(***************************************************************************)
(* The files specification: the config, pyproject.toml and the two         *)
(* generated files change under the user's edits and the tool's commands.  *)
(***************************************************************************)

BaseCfg(python_version, commands, hooks) ==
    [python_version |-> python_version, commands |-> commands,
     ci_install |-> "-e .[dev]", ci_cache |-> "none", ci_python_versions |-> <<>>,
     ci_triggers |-> <<>>, ci_jobs |-> <<>>, ci_artifacts |-> <<>>,
     ci_summary |-> NoSummary, plugin_generate_hooks |-> hooks]

\* configs with no check hooks, assertions or summary metrics
FileConfigs ==
    { BaseCfg(V312, <<CmdTest>>, <<>>),
      BaseCfg(V311, <<CmdTest>>, <<>>),
      BaseCfg(V312, <<CmdTest, CmdLint>>, <<"make docs">>),
      [BaseCfg(V312, <<CmdTest>>, <<>>) EXCEPT !.ci_jobs = <<JobLint>>] }

\* the renders of the configs above, computed once
RenderTable == [c \in FileConfigs |-> [p \in Paths |-> Render(p, c)]]
Rendered(path, c) == RenderTable[c][path]

\* what a user leaves at a managed path: nothing, a file of their own, a
\* generated file they edited, a file of their own that mentions the marker
UserFiles ==
    { Absent,
      File(<<"default:", "\t@echo user-owned">>),
      File(<<GENERATED_MARKER, "# DO NOT EDIT", "", "# local tweak">>),
      File(<<"# my recipes", "# see " \o GENERATED_MARKER>>) }

\* what a caller hands the writer: a render, or text a broken renderer made
BadContent == <<"# DO NOT EDIT", "", "hello">>
WriteContents(path) == { Rendered(path, c) : c \in FileConfigs } \cup {BadContent}

Modes == {"strict", "adopt", "force"}

PyprojectStates ==
    { [status |-> "file_missing", value |-> <<>>],
      [status |-> "ok",
       value |-> <<">", "=", "3", ".", "1", "2", ",", "<", "3", ".", "1", "3">>],
      [status |-> "ok", value |-> <<">", "=", "3", ".", "1", "3">>] }

NoHist == [ok |-> FALSE, conf |-> <<>>]

FInit ==
    /\ conf \in FileConfigs
    /\ fs = [p \in Paths |-> Absent]
    /\ pyproject \in PyprojectStates
    /\ out = [kind |-> "none"]
    /\ hist = NoHist
    /\ VIdle
    /\ RIdle
    /\ CIdle

\* the user rewrites intent.toml
EditConfig ==
    /\ conf' \in FileConfigs \ {conf}
    /\ out' = [kind |-> "edit"]
    /\ UNCHANGED <<fs, pyproject, hist, vvars, rvars, cvars>>

\* the user rewrites pyproject.toml
EditPyproject ==
    /\ pyproject' \in PyprojectStates \ {pyproject}
    /\ out' = [kind |-> "edit"]
    /\ UNCHANGED <<conf, fs, hist, vvars, rvars, cvars>>

\* the user creates, replaces, edits or deletes a managed file
UserEdit(path) ==
    /\ \E f \in UserFiles \ {fs[path]} : fs' = [fs EXCEPT ![path] = f]
    /\ out' = [kind |-> "edit"]
    /\ hist' = NoHist
    /\ UNCHANGED <<conf, pyproject, vvars, rvars, cvars>>

\* a direct call write_generated_file(path, content, mode=mode)
WriteGenerated(path, content, mode) ==
    LET w == write_generated_file(path, fs[path], content, mode) IN
    /\ fs' = [fs EXCEPT ![path] = w.after]
    /\ out' = [kind |-> "write", path |-> path, content |-> content, mode |-> mode,
               before |-> fs[path], result |-> w.result, error |-> w.error]
    /\ hist' = NoHist
    /\ UNCHANGED <<conf, pyproject, vvars, rvars, cvars>>

\* sync --write [--adopt | --force]; hookOk is what each generate hook exits with
Sync(adopt, force, hookOk) ==
    LET mode == SyncMode(adopt, force)
        versions == _check_versions(conf.python_version, FALSE,
                                    pyproject.status, pyproject.value)
        w == SyncWrites(fs, Rendered(CiPath, conf), Rendered(JustPath, conf), mode)
        raised == w.error # NoError
        hooksRun == IF raised THEN <<>> ELSE hookOk
    IN /\ ~(adopt /\ force)
       /\ fs' = w.files
       /\ out' = [kind |-> "sync", adopt |-> adopt, force |-> force, mode |-> mode,
                  versions |-> versions,
                  before |-> fs, ci |-> w.ci, just |-> w.just, error |-> w.error,
                  hooks |-> hooksRun,
                  exit |-> IF raised \/ (\E i \in 1..Len(hooksRun) : ~hooksRun[i])
                           THEN 1 ELSE 0]
       /\ hist' = IF raised THEN NoHist ELSE [ok |-> TRUE, conf |-> conf]
       /\ UNCHANGED <<conf, pyproject, vvars, rvars, cvars>>

\* sync --dry-run: the cross-check, then the preview of both files
SyncDryRun ==
    LET versions == _check_versions(conf.python_version, FALSE,
                                    pyproject.status, pyproject.value)
    IN /\ out' = [kind |-> "dry_run", versions |-> versions, before |-> fs,
                  preview |-> [p \in Paths |-> _preview_status(fs[p], Rendered(p, conf))],
                  exit |-> 0]
       /\ UNCHANGED <<conf, fs, pyproject, hist, vvars, rvars, cvars>>

\* the drift status of both managed files against the config's renders
DriftOf(files, c) ==
    [p \in Paths |-> _generated_drift_status(files[p], Rendered(p, c))]

\* check (for a config with no check hooks, assertions or metrics) and
\* doctor: the version cross-check, then both files; strict as resolved
DriftCheck(command, strict) ==
    LET versions == _check_versions(conf.python_version, strict,
                                    pyproject.status, pyproject.value)
        files == DriftOf(fs, conf)
    IN /\ out' = [kind |-> command, strict |-> strict, versions |-> versions,
                  files |-> files,
                  exit |-> IF versions.ok /\ \A p \in Paths : files[p].ok THEN 0 ELSE 1]
       /\ UNCHANGED <<conf, fs, pyproject, hist, vvars, rvars, cvars>>

Check(strict) == DriftCheck("check", strict)
Doctor(strict) == DriftCheck("doctor", strict)

FNext ==
    \/ EditConfig
    \/ EditPyproject
    \/ \E p \in Paths : UserEdit(p)
    \/ \E p \in Paths, m \in Modes : \E c \in WriteContents(p) : WriteGenerated(p, c, m)
    \/ \E adopt, force \in BOOLEAN :
          \E hookOk \in [1..Len(conf.plugin_generate_hooks) -> BOOLEAN] :
              Sync(adopt, force, hookOk)
    \/ SyncDryRun
    \/ \E strict \in BOOLEAN : Check(strict)
    \/ \E strict \in BOOLEAN : Doctor(strict)

Spec == FInit /\ [][FNext]_vars

(***************************************************************************)
(* Inputs of the versioning specification.                                 *)
(***************************************************************************)

\* the most clauses a constraint spec is written with
MaxClauses == 2

\* Declared versions, valid and not
VersionTexts ==
    { <<"3", ".", "1", "2">>, <<"3", ".", "1", "1">>, <<"3", ".", "1", "3">>,
      <<"3", ".", "1", "2", ".", "0">>, <<"3", ".", "x">> }

\* Bounds a clause is written with
BoundTexts ==
    { <<"3", ".", "1", "1">>, <<"3", ".", "1", "2">>, <<"3", ".", "1", "3">>,
      <<"3", ".", "1", "2", ".", "0">> }

\* Clause operators: the two the checker handles, the four others the
\* constraint model names, one outside it, and the bare literal
ClauseOps ==
    { <<">", "=">>, <<"<">>, <<"=", "=">>, <<"<", "=">>, <<">">>, <<"~", "=">>,
      <<"!", "=">>, <<>> }

\* every operator with every bound, and one clause whose bound does not parse
ClauseSet ==
    [op : ClauseOps, bound : BoundTexts]
    \cup { [op |-> <<">", "=">>, bound |-> <<"3", ".", "x">>] }


ClauseText(cl) == cl.op \o cl.bound

\* the clauses as a list of strings
ClauseList(cls) == [i \in 1..Len(cls) |-> ClauseText(cls[i])]

RECURSIVE JoinClauses(_)
\* ",".join(clause texts)
JoinClauses(cls) ==
    IF cls = <<>> THEN <<>>
    ELSE IF Len(cls) = 1 THEN ClauseText(cls[1])
    ELSE ClauseText(cls[1]) \o <<",">> \o JoinClauses(Tail(cls))

ClauseSeqs == UNION { [1..n -> ClauseSet] : n \in 1..MaxClauses }

NoOut == [op |-> "none"]

PyStatuses == {"ok", "file_missing", "project_missing", "requires_python_missing", "invalid"}

VInit ==
    /\ \/ /\ pystatus = "ok"
          /\ ver \in VersionTexts
          /\ clauses \in ClauseSeqs
       \/ /\ pystatus \in PyStatuses \ {"ok"}
          /\ ver = V312
          /\ clauses = <<>>
    /\ spec = JoinClauses(clauses)
    /\ vout = NoOut
    /\ RIdle
    /\ FIdle
    /\ CIdle

\* satisfies(V, S)
Satisfies ==
    /\ vout = NoOut
    /\ pystatus = "ok"
    /\ vout' = [op |-> "satisfies", r |-> check_requires_python_range(ver, spec)]
    /\ UNCHANGED <<ver, clauses, spec, pystatus, rvars, fvars, cvars>>

\* the cross-check of check (strict as resolved) and of sync (strict off);
\* the declared version is one load_intent accepted (validate_python_version)
CrossCheck(strict) ==
    /\ vout = NoOut
    /\ parse_version(ver) # NoVersion
    /\ vout' = [op |-> "versions", strict |-> strict,
                r |-> _check_versions(ver, strict, pystatus, spec)]
    /\ UNCHANGED <<ver, clauses, spec, pystatus, rvars, fvars, cvars>>

\* max_lower_bound handed the list of clauses its signature declares
\* (asList), or the spec string as _check_versions hands it
LowerBound(asList) ==
    /\ vout = NoOut
    /\ pystatus = "ok"
    /\ vout' = [op |-> "lower", asList |-> asList,
                r |-> max_lower_bound(IF asList THEN ClauseList(clauses)
                                      ELSE StrItems(spec))]
    /\ UNCHANGED <<ver, clauses, spec, pystatus, rvars, fvars, cvars>>

VNext ==
    \/ Satisfies
    \/ \E asList \in BOOLEAN : LowerBound(asList)
    \/ \E strict \in BOOLEAN : CrossCheck(strict)

SpecVersion == VInit /\ [][VNext]_vars

(***************************************************************************)
(* The invocation specification: one command line of the tool, run         *)
(* against what intent.toml holds, what the declared commands do and what  *)
(* is on disk.  intent/config.py loads the document; intent/cli.py runs    *)
(* the command.                                                            *)
(***************************************************************************)

\* a value of the parsed TOML document, tagged with its type
Null == [t |-> "null"]
TStr(chars) == [t |-> "str", v |-> chars]
TBool(b) == [t |-> "bool", b |-> b]
TInt(n) == [t |-> "int", n |-> n]

\* isinstance(raw, str) and raw.strip()
NonEmptyStr(raw) == raw.t = "str" /\ Strip(raw.v) # <<>>

\* a JSON value: what json.loads gives for a command's stdout
JNum(n) == [t |-> "int", n |-> n]
JStr(s) == [t |-> "str", s |-> s]
JArr(items) == [t |-> "list", items |-> items]
JObj(items) == [t |-> "dict", items |-> items]

\* equality of two JSON values, as Python's == between values of these types
JEq(a, b) == a.t = b.t /\ a = b

DEFAULT_POLICY_STRICT == FALSE
POLICY_PACKS == [pack \in {"default", "strict"} |-> [strict |-> pack = "strict"]]
CHECK_ASSERTION_OPERATORS == {"eq", "ne", "gt", "gte", "lt", "lte", "in", "not_in"}

ERR_USAGE_CONFLICT == "INTENT001"
ERR_CONFIG_NOT_FOUND == "INTENT002"
ERR_CONFIG_INVALID == "INTENT003"
ERR_OWNERSHIP == "INTENT004"
ERR_PLUGIN == "INTENT301"
ERR_CHECK == "INTENT401"

\* what load_intent raises, or the config it returns
ConfigError(kind, message) == [ok |-> FALSE, error |-> kind, message |-> message]
Loaded(cfg) == [ok |-> TRUE, cfg |-> cfg]

\* load_raw_intent: the file, the TOML text, [python], [commands], [policy]
load_raw_intent(d) ==
    IF d.state = "missing" THEN ConfigError("FileNotFoundError", "does not exist")
    ELSE IF d.state = "invalid_toml" THEN ConfigError("IntentConfigError", "Invalid TOML")
    ELSE IF d.version.t # "str"
    THEN ConfigError("IntentConfigError", "invalid [python].version (expected string)")
    ELSE IF d.commands = <<>>
    THEN ConfigError("IntentConfigError", "[commands] must define at least one command")
    ELSE IF \E i \in 1..Len(d.commands) : Strip(d.commands[i].value) = <<>>
    THEN ConfigError("IntentConfigError", "[commands].name cannot be empty")
    ELSE IF d.policy.pack.t # "null" /\ ~NonEmptyStr(d.policy.pack)
    THEN ConfigError("IntentConfigError", "invalid [policy].pack (expected non-empty string)")
    ELSE IF d.policy.pack.t # "null" /\ Flatten(Strip(d.policy.pack.v)) \notin DOMAIN POLICY_PACKS
    THEN ConfigError("IntentConfigError", "invalid [policy].pack (expected one of default, strict)")
    ELSE IF d.policy.strict.t # "null" /\ d.policy.strict.t # "bool"
    THEN ConfigError("IntentConfigError", "invalid [policy].strict (expected boolean)")
    ELSE Loaded(d)

\* commands = {k: v.strip() for k, v in commands_section.items()}
LoadCommands(raw) ==
    [i \in 1..Len(raw) |-> [key |-> Flatten(raw[i].key), value |-> <<Flatten(Strip(raw[i].value))>>]]

\* command not in commands
Declared(commands, name) == \E i \in 1..Len(commands) : commands[i].key = name

\* the first step of [ci].jobs that load_intent rejects, "" if none: a step
\* sets exactly one of run and command, and its command must be declared
StepError(step, commands) ==
    IF step.run.t # "null" /\ ~NonEmptyStr(step.run)
    THEN "invalid [ci].jobs[0].steps[i].run (expected non-empty string)"
    ELSE IF step.command.t # "null" /\ ~NonEmptyStr(step.command)
    THEN "invalid [ci].jobs[0].steps[i].command (expected non-empty string)"
    ELSE IF step.command.t # "null" /\ ~Declared(commands, Flatten(Strip(step.command.v)))
    THEN "invalid [ci].jobs[0].steps[i].command (unknown command)"
    ELSE IF (step.run.t # "null") = (step.command.t # "null")
    THEN "invalid [ci].jobs[0].steps[i] (set exactly one of run, command, uses)"
    ELSE ""

LoadStep(step) ==
    IF step.run.t # "null" THEN RunStep(<<Flatten(Strip(step.run.v))>>)
    ELSE CommandStep(Flatten(Strip(step.command.v)))

\* [ci].jobs: one job per entry, named by its position in JobNames
JobNames == <<"verify", "report">>
LoadJobs(steps) ==
    [i \in 1..Len(steps) |->
        [name |-> JobNames[i], runs_on |-> "ubuntu-latest", needs |-> <<>>,
         if_condition |-> "", timeout_minutes |-> "", continue_on_error |-> FALSE,
         matrix |-> <<>>, steps |-> <<LoadStep(steps[i])>>]]

\* [ci].summary.metrics[i]
MetricError(metric, commands) ==
    IF ~NonEmptyStr(metric.command)
    THEN "invalid [ci].summary.metrics[i].command (expected non-empty string)"
    ELSE IF ~Declared(commands, Flatten(Strip(metric.command.v)))
    THEN "invalid [ci].summary.metrics[i].command (unknown command)"
    ELSE IF ~NonEmptyStr(metric.path)
    THEN "invalid [ci].summary.metrics[i].path (expected non-empty string)"
    ELSE ""

LoadMetric(metric) ==
    [label |-> metric.label, command |-> Flatten(Strip(metric.command.v)),
     path |-> Strip(metric.path.v),
     baseline_path |-> IF metric.baseline_path.t = "null" THEN <<>>
                       ELSE Strip(metric.baseline_path.v)]

\* [checks].assertions[i]
\* a faulty variant: the command of an assertion is not looked up
AssertionError_NoReference(assertion, commands) ==
    IF ~NonEmptyStr(assertion.command)
    THEN "invalid [checks].assertions[i].command (expected non-empty string)"
    ELSE IF ~NonEmptyStr(assertion.path)
    THEN "invalid [checks].assertions[i].path (expected non-empty string)"
    ELSE IF assertion.op \notin CHECK_ASSERTION_OPERATORS
    THEN "invalid [checks].assertions[i].op"
    ELSE IF assertion.op \in {"in", "not_in"} /\ assertion.value.t # "list"
    THEN "invalid [checks].assertions[i].value (expected array)"
    ELSE ""

AssertionError(assertion, commands) ==
    IF ~NonEmptyStr(assertion.command)
    THEN "invalid [checks].assertions[i].command (expected non-empty string)"
    ELSE IF ~Declared(commands, Flatten(Strip(assertion.command.v)))
    THEN "invalid [checks].assertions[i].command (unknown command)"
    ELSE IF ~NonEmptyStr(assertion.path)
    THEN "invalid [checks].assertions[i].path (expected non-empty string)"
    ELSE IF assertion.op \notin CHECK_ASSERTION_OPERATORS
    THEN "invalid [checks].assertions[i].op"
    ELSE IF assertion.op \in {"in", "not_in"} /\ assertion.value.t # "list"
    THEN "invalid [checks].assertions[i].value (expected array)"
    ELSE ""

LoadAssertion(assertion) ==
    [command |-> Flatten(Strip(assertion.command.v)), path |-> Strip(assertion.path.v),
     op |-> assertion.op, value |-> assertion.value]

\* the message of the first element of a list that is rejected, "" if none
FirstError(list, Err(_)) ==
    LET bad == { i \in 1..Len(list) : Err(list[i]) # "" } IN
    IF bad = {} THEN ""
    ELSE Err(list[CHOOSE i \in bad : \A j \in bad : i <= j])

\* a faulty variant: the pack's default is applied after [policy].strict
PolicyStrict_PackWins(policy) ==
    LET fromField == IF policy.strict.t # "null" THEN policy.strict.b
                     ELSE DEFAULT_POLICY_STRICT
    IN IF policy.pack.t # "null" THEN POLICY_PACKS[Flatten(Strip(policy.pack.v))].strict
       ELSE fromField

\* policy_strict: the default, then the pack's default, then [policy].strict
PolicyStrict(policy) ==
    LET fromPack == IF policy.pack.t # "null"
                    THEN POLICY_PACKS[Flatten(Strip(policy.pack.v))].strict
                    ELSE DEFAULT_POLICY_STRICT
    IN IF policy.strict.t # "null" THEN policy.strict.b ELSE fromPack


(***************************************************************************)
(* intent/cli.py: the check engine                                         *)
(***************************************************************************)

\* the characters of the regular expression class [A-Za-z0-9_-]
KeyChars ==
    { "a", "b", "c", "d", "e", "f", "g", "h", "i", "j", "k", "l", "m", "n", "o", "p",
      "q", "r", "s", "t", "u", "v", "w", "x", "y", "z", "_", "-",
      "A", "B", "C", "D", "E", "F", "G", "H", "I", "J", "K", "L", "M", "N", "O", "P",
      "Q", "R", "S", "T", "U", "V", "W", "X", "Y", "Z",
      "0", "1", "2", "3", "4", "5", "6", "7", "8", "9" }

RECURSIVE KeyMatch(_)
\* re.match(r"[A-Za-z0-9_-]+", part): the longest prefix of key characters
KeyMatch(part) ==
    IF part # <<>> /\ Head(part) \in KeyChars THEN <<Head(part)>> \o KeyMatch(Tail(part))
    ELSE <<>>

RECURSIVE DigitsMatch(_)
\* the longest prefix of digits
DigitsMatch(s) ==
    IF s # <<>> /\ IsDigitChar(Head(s)) THEN <<Head(s)>> \o DigitsMatch(Tail(s)) ELSE <<>>

KeyToken(key) == [kind |-> "key", v |-> Flatten(key)]
IndexToken(n) == [kind |-> "index", n |-> n]
TokensError(message) == [ok |-> FALSE, tokens |-> <<>>, error |-> message]

RECURSIVE IndexTokens(_, _, _)
\* the while loop of _json_path_tokens: re.match(r"\[(\d+)\]", part[pos:])
IndexTokens(path, rest, tokens) ==
    IF rest = <<>> THEN [ok |-> TRUE, tokens |-> tokens, error |-> ""]
    ELSE LET digits == DigitsMatch(Tail(rest))
             after == Drop(rest, 1 + Len(digits))
         IN IF Head(rest) = "[" /\ digits # <<>> /\ after # <<>> /\ Head(after) = "]"
            THEN IndexTokens(path, Tail(after), Append(tokens, IndexToken(IntOf(digits))))
            ELSE TokensError("invalid index segment in '" \o Flatten(path) \o "'")

RECURSIVE PartTokens(_, _, _)
\* the for loop of _json_path_tokens over path.split(".")
PartTokens(path, parts, tokens) ==
    IF parts = <<>> THEN [ok |-> TRUE, tokens |-> tokens, error |-> ""]
    ELSE LET part == Head(parts)
             key == KeyMatch(part)
         IN IF part = <<>>
            THEN TokensError("invalid path segment in '" \o Flatten(path) \o "'")
            ELSE IF key = <<>>
            THEN TokensError("invalid key segment in '" \o Flatten(path) \o "'")
            ELSE LET r == IndexTokens(path, Drop(part, Len(key)),
                                      Append(tokens, KeyToken(key)))
                 IN IF r.ok THEN PartTokens(path, Tail(parts), r.tokens) ELSE r

_json_path_tokens(path) ==
    IF Strip(path) = <<>> THEN TokensError("path cannot be empty")
    ELSE PartTokens(path, Split(path, "."), <<>>)

\* what _resolve_json_path returns: (found, value, reason)
NoValue == [t |-> "NoneType"]
Found(value) == [found |-> TRUE, value |-> value, reason |-> ""]
NotFound(reason) == [found |-> FALSE, value |-> NoValue, reason |-> reason]

HasKey(obj, key) == \E i \in 1..Len(obj.items) : obj.items[i].key = key
Item(obj, key) == obj.items[CHOOSE i \in 1..Len(obj.items) : obj.items[i].key = key].value

RECURSIVE Walk(_, _)
\* a faulty variant: a step that cannot be taken returns the value reached
Walk_BestEffort(cur, tokens) ==
    IF tokens = <<>> THEN Found(cur)
    ELSE LET token == Head(tokens) IN
         IF token.kind = "key"
         THEN IF cur.t # "dict" THEN Found(cur)
              ELSE IF ~HasKey(cur, token.v) THEN Found(cur)
              ELSE Walk(Item(cur, token.v), Tail(tokens))
         ELSE IF cur.t # "list" THEN Found(cur)
              ELSE IF token.n >= Len(cur.items) THEN Found(cur)
              ELSE Walk(cur.items[token.n + 1], Tail(tokens))

\* the for loop of _resolve_json_path
Walk(cur, tokens) ==
    IF tokens = <<>> THEN Found(cur)
    ELSE LET token == Head(tokens) IN
         IF token.kind = "key"
         THEN IF cur.t # "dict"
              THEN NotFound("path segment '" \o token.v \o "' expects object, got " \o cur.t)
              ELSE IF ~HasKey(cur, token.v)
              THEN NotFound("path segment '" \o token.v \o "' missing")
              ELSE Walk(Item(cur, token.v), Tail(tokens))
         ELSE IF cur.t # "list"
              THEN NotFound("path index [" \o ToString(token.n) \o "] expects array, got "
                            \o cur.t)
              ELSE IF token.n >= Len(cur.items)
              THEN NotFound("path index [" \o ToString(token.n) \o "] out of range")
              ELSE Walk(cur.items[token.n + 1], Tail(tokens))

ResolveTokens(payload, t) ==
    IF ~t.ok THEN NotFound(t.error) ELSE Walk(payload, t.tokens)

_resolve_json_path(payload, path) == ResolveTokens(payload, _json_path_tokens(path))

\* (ok, reason); the ordered operators are taken between two numbers or
\* between a number and a value of another type (TypeError), the cases the
\* inputs hold
_compare_assertion(actual, op, expected) ==
    LET typeError == actual.t # "int" \/ expected.t # "int"
        incompatible == [ok |-> FALSE, reason |-> "incompatible types for operator " \o op]
        result(b) == [ok |-> b, reason |-> ""]
    IN CASE op = "eq" -> result(JEq(actual, expected))
         [] op = "ne" -> result(~JEq(actual, expected))
         [] op = "in" ->
              IF expected.t # "list"
              THEN [ok |-> FALSE, reason |-> "expected array for 'in' operator"]
              ELSE result(\E i \in 1..Len(expected.items) : JEq(expected.items[i], actual))
         [] op = "not_in" ->
              IF expected.t # "list"
              THEN [ok |-> FALSE, reason |-> "expected array for 'not_in' operator"]
              ELSE result(\A i \in 1..Len(expected.items) : ~JEq(expected.items[i], actual))
         [] op = "gt" -> IF typeError THEN incompatible ELSE result(actual.n > expected.n)
         [] op = "gte" -> IF typeError THEN incompatible ELSE result(actual.n >= expected.n)
         [] op = "lt" -> IF typeError THEN incompatible ELSE result(actual.n < expected.n)
         [] op = "lte" -> IF typeError THEN incompatible ELSE result(actual.n <= expected.n)
         [] OTHER -> [ok |-> FALSE, reason |-> "unsupported operator " \o op]

\* [checks].gates[i]; the loader's gate branch is taken from the documented
\* behaviour: kind is threshold or equals, the command must be declared
GATE_KINDS == {"threshold", "equals"}

GateError(gate, commands) ==
    IF gate.kind \notin GATE_KINDS
    THEN "invalid [checks].gates[i].kind"
    ELSE IF ~NonEmptyStr(gate.command)
    THEN "invalid [checks].gates[i].command (expected non-empty string)"
    ELSE IF ~Declared(commands, Flatten(Strip(gate.command.v)))
    THEN "invalid [checks].gates[i].command (unknown command)"
    ELSE IF ~NonEmptyStr(gate.path)
    THEN "invalid [checks].gates[i].path (expected non-empty string)"
    ELSE ""

LoadGate(gate) ==
    [name |-> gate.name, kind |-> gate.kind, command |-> Flatten(Strip(gate.command.v)),
     path |-> Strip(gate.path.v), max |-> gate.max, min |-> gate.min, value |-> gate.value]

\* load_intent: the document, then the version, the command table, [ci].jobs,
\* [ci].summary, [plugins], [checks], [policy]
FirstNonEmpty(errors) ==
    LET bad == { i \in 1..Len(errors) : errors[i] # "" } IN
    IF bad = {} THEN "" ELSE errors[CHOOSE i \in bad : \A j \in bad : i <= j]

\* the first reference or shape error of [ci].jobs, [ci].summary.metrics,
\* [checks].assertions and [checks].gates, in the order load_intent reads them
SectionError(d, commands) ==
    LET StepErr(s) == StepError(s, commands)
        MetricErr(x) == MetricError(x, commands)
        AssertionErr(a) == AssertionError(a, commands)
        GateErr(g) == GateError(g, commands)
    IN FirstNonEmpty(<< FirstError(d.steps, StepErr),
                        FirstError(d.summary.metrics, MetricErr),
                        FirstError(d.assertions, AssertionErr),
                        FirstError(d.gates, GateErr) >>)

\* the IntentConfig load_intent returns
IntentConfig(d, python_version, commands) ==
    [python_version |-> python_version,
     commands |-> commands,
     ci_install |-> "-e .[dev]", ci_cache |-> "none",
     ci_python_versions |-> <<>>, ci_triggers |-> <<>>,
     ci_jobs |-> LoadJobs(d.steps),
     ci_artifacts |-> <<>>,
     ci_summary |-> [present |-> d.summary.present, enabled |-> d.summary.present,
                     metrics |-> [i \in 1..Len(d.summary.metrics) |->
                                     LoadMetric(d.summary.metrics[i])]],
     plugin_check_hooks |-> d.check_hooks,
     plugin_generate_hooks |-> d.generate_hooks,
     checks_assertions |-> [i \in 1..Len(d.assertions) |-> LoadAssertion(d.assertions[i])],
     checks_gates |-> [i \in 1..Len(d.gates) |-> LoadGate(d.gates[i])],
     policy_pack |-> IF d.policy.pack.t = "null" THEN "" ELSE Flatten(Strip(d.policy.pack.v)),
     policy_strict |-> PolicyStrict(d.policy)]

\* a faulty variant: the version text is not validated
LoadChecked_AnyVersion(d, python_version, commands, error) ==
    IF error # "" THEN ConfigError("IntentConfigError", error)
    ELSE Loaded(IntentConfig(d, python_version, commands))

\* load_intent after load_raw_intent returned: the version, then the sections
LoadChecked(d, python_version, commands, error) ==
    IF parse_version(python_version) = NoVersion
    THEN ConfigError("IntentConfigError", "Invalid python version")
    ELSE IF error # "" THEN ConfigError("IntentConfigError", error)
    ELSE Loaded(IntentConfig(d, python_version, commands))

LoadSections(d, python_version, commands) ==
    LoadChecked(d, python_version, commands, SectionError(d, commands))

LoadRaw(d, raw) ==
    IF ~raw.ok THEN raw ELSE LoadSections(d, Strip(d.version.v), LoadCommands(d.commands))

load_intent(d) == LoadRaw(d, load_raw_intent(d))

\* _run_plugin_hooks: every hook is run; exits[i] is what hook i exits with
_run_plugin_hooks(hooks, stage, exits) ==
    [i \in 1..Len(hooks) |->
        [stage |-> stage, command |-> hooks[i], ok |-> exits[i] = 0,
         exit_code |-> exits[i],
         code |-> IF exits[i] = 0 THEN NoCode ELSE ERR_PLUGIN]]

RECURSIVE SortedNames(_)
\* a faulty variant: each name is yielded twice, so that its command is
\* spawned twice
SortedNames_Twice(names) ==
    IF names = {} THEN <<>>
    ELSE LET first == CHOOSE n \in names : \A m \in names : Rank(n) <= Rank(m)
         IN <<first, first>> \o SortedNames(names \ {first})

\* sorted(command_names)
SortedNames(names) ==
    IF names = {} THEN <<>>
    ELSE LET first == CHOOSE n \in names : \A m \in names : Rank(n) <= Rank(m)
         IN <<first>> \o SortedNames(names \ {first})

\* what one run of a command leaves in the results table
CommandResult(outcome) ==
    IF outcome.returncode # 0
    THEN [ok |-> FALSE,
          error |-> "command failed with exit code " \o ToString(outcome.returncode),
          payload |-> NoValue]
    ELSE IF ~outcome.json
    THEN [ok |-> FALSE, error |-> "stdout is not valid JSON: Expecting value",
          payload |-> NoValue]
    ELSE [ok |-> TRUE, error |-> "", payload |-> outcome.payload]

\* _run_json_commands: ran is the commands in the order they were spawned,
\* results the table the consumers read; commands[command_name] raises
\* KeyError for a name that is not in the command table
_run_json_commands(commands, command_names, outcomes) ==
    LET ran == SortedNames(command_names)
        undeclared == { n \in command_names : ~Declared(commands, n) }
    IN IF undeclared # {}
       THEN [raised |-> "KeyError", ran |-> <<>>, results |-> <<>>]
       ELSE [raised |-> "", ran |-> ran,
             results |-> [n \in command_names |-> CommandResult(outcomes[n])]]

\* one iteration of the loop of _run_check_assertions: AssertionResult
AssertionBase(assertion) ==
    [command |-> assertion.command, path |-> assertion.path,
     op |-> assertion.op, expected |-> assertion.value]

AssertionCompared(assertion, actual, compared) ==
    AssertionBase(assertion) @@
        [ok |-> compared.ok, actual |-> actual, reason |-> compared.reason,
         code |-> IF compared.ok THEN NoCode ELSE ERR_CHECK, resolved |-> TRUE]

AssertionResolved(assertion, resolved) ==
    IF ~resolved.found
    THEN AssertionBase(assertion) @@
             [ok |-> FALSE, actual |-> NoValue, reason |-> resolved.reason,
              code |-> ERR_CHECK, resolved |-> TRUE]
    ELSE AssertionCompared(assertion, resolved.value,
                           _compare_assertion(resolved.value, assertion.op, assertion.value))

\* a faulty variant: the reason of a failed command is worded again for the
\* assertion
AssertionResult_OwnReason(assertion, command_result) ==
    IF ~command_result.ok
    THEN AssertionBase(assertion) @@
             [ok |-> FALSE, actual |-> NoValue,
              reason |-> "command " \o assertion.command \o " failed",
              code |-> ERR_CHECK, resolved |-> FALSE]
    ELSE AssertionResolved(assertion,
                           _resolve_json_path(command_result.payload, assertion.path))

AssertionResult(assertion, command_result) ==
    IF ~command_result.ok
    THEN AssertionBase(assertion) @@
             [ok |-> FALSE, actual |-> NoValue, reason |-> command_result.error,
              code |-> ERR_CHECK, resolved |-> FALSE]
    ELSE AssertionResolved(assertion,
                           _resolve_json_path(command_result.payload, assertion.path))

RECURSIVE AssertionLoop(_, _, _)
\* a faulty variant: the loop stops at the first assertion that fails
AssertionLoop_FailFast(assertions, command_results, results) ==
    IF assertions = <<>> THEN results
    ELSE LET r == AssertionResult(Head(assertions), command_results[Head(assertions).command])
         IN IF ~r.ok THEN Append(results, r)
            ELSE AssertionLoop(Tail(assertions), command_results, Append(results, r))

\* the for loop of _run_check_assertions
AssertionLoop(assertions, command_results, results) ==
    IF assertions = <<>> THEN results
    ELSE LET r == AssertionResult(Head(assertions), command_results[Head(assertions).command])
         IN AssertionLoop(Tail(assertions), command_results, Append(results, r))

_run_check_assertions(assertions, command_results) ==
    AssertionLoop(assertions, command_results, <<>>)

_is_number(value) == value.t = "int"

\* one iteration of the loop of _evaluate_summary_metrics (no precision
\* set): MetricResult
MetricBase(metric) ==
    [label |-> metric.label, command |-> metric.command, path |-> metric.path,
     baseline_path |-> metric.baseline_path]

MetricFailed(metric, value, reason, resolved) ==
    MetricBase(metric) @@
        [ok |-> FALSE, value |-> value, baseline |-> NoValue, delta |-> NoValue,
         reason |-> reason, code |-> ERR_CHECK, resolved |-> resolved]

\* the baseline branch: the baseline path was resolved on the same payload
MetricBaseline(metric, value, baseline) ==
    IF ~baseline.found THEN MetricFailed(metric, value, baseline.reason, TRUE)
    ELSE IF _is_number(value) /\ _is_number(baseline.value)
    THEN MetricBase(metric) @@
             [ok |-> TRUE, value |-> value, baseline |-> baseline.value,
              delta |-> JNum(value.n - baseline.value.n), reason |-> "",
              code |-> NoCode, resolved |-> TRUE]
    ELSE MetricBase(metric) @@
             [ok |-> TRUE, value |-> value, baseline |-> baseline.value, delta |-> NoValue,
              reason |-> "delta requires numeric value and baseline",
              code |-> NoCode, resolved |-> TRUE]

MetricResolved(metric, payload, value) ==
    IF ~value.found THEN MetricFailed(metric, NoValue, value.reason, TRUE)
    ELSE IF metric.baseline_path = <<>>
    THEN MetricBase(metric) @@
             [ok |-> TRUE, value |-> value.value, baseline |-> NoValue, delta |-> NoValue,
              reason |-> "", code |-> NoCode, resolved |-> TRUE]
    ELSE MetricBaseline(metric, value.value, _resolve_json_path(payload, metric.baseline_path))

MetricResult(metric, command_result) ==
    IF ~command_result.ok THEN MetricFailed(metric, NoValue, command_result.error, FALSE)
    ELSE MetricResolved(metric, command_result.payload,
                        _resolve_json_path(command_result.payload, metric.path))

_evaluate_summary_metrics(metrics, command_results) ==
    [i \in 1..Len(metrics) |-> MetricResult(metrics[i], command_results[metrics[i].command])]

\* the verdict of a gate on the value its path resolved to: threshold passes
\* iff the number is at most max and, if min is given, at least min; equals
\* passes iff the value equals the expected one
GateVerdict_Strict(gate, actual) ==
    IF gate.kind = "threshold"
    THEN IF ~_is_number(actual) THEN [ok |-> FALSE, reason |-> "threshold requires a number"]
         ELSE [ok |-> actual.n < gate.max.n /\ (gate.min.t = "null" \/ actual.n >= gate.min.n),
               reason |-> ""]
    ELSE [ok |-> JEq(actual, gate.value), reason |-> ""]

GateVerdict(gate, actual) ==
    IF gate.kind = "threshold"
    THEN IF ~_is_number(actual) THEN [ok |-> FALSE, reason |-> "threshold requires a number"]
         ELSE [ok |-> actual.n <= gate.max.n /\ (gate.min.t = "null" \/ actual.n >= gate.min.n),
               reason |-> ""]
    ELSE [ok |-> JEq(actual, gate.value), reason |-> ""]

\* one gate against the memoized result of its command: GateResult
GateBase(gate) ==
    [name |-> gate.name, kind |-> gate.kind, command |-> gate.command, path |-> gate.path]

GateJudged(gate, actual, verdict) ==
    GateBase(gate) @@
        [ok |-> verdict.ok, actual |-> actual, reason |-> verdict.reason,
         code |-> IF verdict.ok THEN NoCode ELSE ERR_CHECK, resolved |-> TRUE]

GateResolved(gate, resolved) ==
    IF ~resolved.found
    THEN GateBase(gate) @@
             [ok |-> FALSE, actual |-> NoValue, reason |-> resolved.reason,
              code |-> ERR_CHECK, resolved |-> TRUE]
    ELSE GateJudged(gate, resolved.value, GateVerdict(gate, resolved.value))

GateResult(gate, command_result) ==
    IF ~command_result.ok
    THEN GateBase(gate) @@
             [ok |-> FALSE, actual |-> NoValue, reason |-> command_result.error,
              code |-> ERR_CHECK, resolved |-> FALSE]
    ELSE GateResolved(gate, _resolve_json_path(command_result.payload, gate.path))

_run_check_gates(gates, command_results) ==
    [i \in 1..Len(gates) |-> GateResult(gates[i], command_results[gates[i].command])]

(***************************************************************************)
(* Text files: pyproject.toml, .python-version and .tool-versions are read *)
(* and written as text, a sequence of characters.  A file is Absent or     *)
(* File(text).                                                             *)
(***************************************************************************)

Whitespace == {" ", "\t", "\n"}

RECURSIVE LStripWs(_)
LStripWs(s) == IF s # <<>> /\ Head(s) \in Whitespace THEN LStripWs(Tail(s)) ELSE s

RECURSIVE RStripWs(_)
RStripWs(s) ==
    IF s # <<>> /\ s[Len(s)] \in Whitespace THEN RStripWs(SubSeq(s, 1, Len(s) - 1)) ELSE s

\* str.strip() of a text that may hold tabs and newlines
StripWs(s) == RStripWs(LStripWs(s))

\* the indices of the newlines of a text, and the k-th of them (0 for k = 0,
\* one past the end for the one after the last)
Newlines(text) == { i \in 1..Len(text) : text[i] = "\n" }
NewlineAt(text, k) ==
    IF k = 0 THEN 0
    ELSE IF k > Cardinality(Newlines(text)) THEN Len(text) + 1
    ELSE CHOOSE i \in Newlines(text) : Cardinality({ j \in Newlines(text) : j < i }) = k - 1

RECURSIVE LinesFrom(_, _, _)
\* the k-th to the n-th line of a text
LinesFrom(text, k, n) ==
    IF k > n THEN <<>>
    ELSE <<SubSeq(text, NewlineAt(text, k - 1) + 1, NewlineAt(text, k) - 1)>>
             \o LinesFrom(text, k + 1, n)

\* str.splitlines(): the text between the newlines, with no empty last line
\* after a final newline
splitlines(text) ==
    LinesFrom(text, 1, IF text = <<>> \/ text[Len(text)] = "\n"
                       THEN Cardinality(Newlines(text))
                       ELSE Cardinality(Newlines(text)) + 1)

RECURSIVE JoinLines(_)
\* "\n".join(lines)
JoinLines(lines) ==
    IF lines = <<>> THEN <<>>
    ELSE IF Len(lines) = 1 THEN lines[1]
    ELSE lines[1] \o <<"\n">> \o JoinLines(Tail(lines))

\* "\n".join(lines) + "\n"
WriteLines(lines) == JoinLines(lines) \o <<"\n">>

RECURSIVE SplitWsAcc(_, _, _)
SplitWsAcc(s, cur, acc) ==
    IF s = <<>> THEN IF cur = <<>> THEN acc ELSE Append(acc, cur)
    ELSE IF Head(s) \in Whitespace
    THEN SplitWsAcc(Tail(s), <<>>, IF cur = <<>> THEN acc ELSE Append(acc, cur))
    ELSE SplitWsAcc(Tail(s), Append(cur, Head(s)), acc)

\* str.split(): the words between runs of whitespace
SplitWs(s) == SplitWsAcc(s, <<>>, <<>>)

\* ch in s
Contains(s, ch) == \E i \in 1..Len(s) : s[i] = ch

\* the index of the first ch in s, 0 when there is none
IndexOf(s, ch) ==
    IF Contains(s, ch) THEN CHOOSE i \in 1..Len(s) : s[i] = ch /\ \A j \in 1..(i - 1) : s[j] # ch
    ELSE 0

\* "python"
StrPython ==
    <<"p", "y", "t", "h", "o", "n">>
\* "project"
StrProject ==
    <<"p", "r", "o", "j", "e", "c", "t">>
\* "requires-python"
StrRequiresPython ==
    <<"r", "e", "q", "u", "i", "r", "e", "s", "-", "p", "y", "t", "h", "o", "n">>

\* _read_python_version_file: None is <<>>
_read_python_version_file(file) ==
    IF ~file.exists THEN <<>>
    ELSE IF StripWs(file.text) = <<>> THEN <<>>
    ELSE StripWs(splitlines(StripWs(file.text))[1])

\* the python entry of one line of .tool-versions, <<>> when it has none
ToolVersionsEntry(line) ==
    LET stripped == StripWs(line)
        parts == SplitWs(stripped)
    IN IF stripped = <<>> \/ StartsWith(stripped, <<"#">>) THEN <<>>
       ELSE IF Len(parts) >= 2 /\ parts[1] = StrPython THEN parts[2]
       ELSE <<>>

\* the index of the first line with a python entry, 0 when there is none
PythonLine(lines) ==
    IF \E i \in 1..Len(lines) : ToolVersionsEntry(lines[i]) # <<>>
    THEN CHOOSE i \in 1..Len(lines) :
            /\ ToolVersionsEntry(lines[i]) # <<>>
            /\ \A j \in 1..(i - 1) : ToolVersionsEntry(lines[j]) = <<>>
    ELSE 0

\* _read_tool_versions_python: None is <<>>
_read_tool_versions_python(file) ==
    IF ~file.exists THEN <<>>
    ELSE IF PythonLine(splitlines(file.text)) = 0 THEN <<>>
    ELSE ToolVersionsEntry(splitlines(file.text)[PythonLine(splitlines(file.text))])

\* section_re: ^\s*\[([^\[\]]+)\]\s*$
SectionMatch(line) ==
    LET s == StripWs(line) IN
    /\ Len(s) >= 3
    /\ s[1] = "["
    /\ s[Len(s)] = "]"
    /\ \A i \in 2..(Len(s) - 1) : s[i] \notin {"[", "]"}

\* match.group(1).strip()
SectionName(line) == LET s == StripWs(line) IN StripWs(SubSeq(s, 2, Len(s) - 1))

(***************************************************************************)
(* tomllib.loads, for the TOML the modelled files are written in: comment  *)
(* and blank lines, [table] headers, and key = "string" or key = integer   *)
(* lines with bare keys.                                                   *)
(***************************************************************************)

BareKeyChars ==
    { "a", "b", "c", "d", "e", "f", "g", "h", "i", "j", "k", "l", "m", "n", "o", "p", "q",
      "r", "s", "t", "u", "v", "w", "x", "y", "z", "A", "B", "C", "D", "E", "F", "G", "H",
      "I", "J", "K", "L", "M", "N", "O", "P", "Q", "R", "S", "T", "U", "V", "W", "X", "Y",
      "Z", "0", "1", "2", "3", "4", "5", "6", "7", "8", "9", "_", "-" }

IsBareKey(s) == s # <<>> /\ \A i \in 1..Len(s) : s[i] \in BareKeyChars

\* a table header: bare keys joined by dots
IsTableName(s) ==
    /\ s # <<>>
    /\ \A i \in 1..Len(s) : s[i] \in BareKeyChars \cup {"."}
    /\ \A part \in { Split(s, ".")[i] : i \in 1..Len(Split(s, ".")) } : part # <<>>

IsBasicString(v) ==
    /\ Len(v) >= 2
    /\ v[1] = "\""
    /\ v[Len(v)] = "\""
    /\ \A i \in 2..(Len(v) - 1) : v[i] \notin {"\"", "\\"}

\* what one line is: blank, a table header, a key with its value, or an error
TomlLine(line) ==
    LET s == StripWs(line)
        eq == IndexOf(s, "=")
        key == StripWs(SubSeq(s, 1, eq - 1))
        val == StripWs(SubSeq(s, eq + 1, Len(s)))
    IN IF s = <<>> \/ StartsWith(s, <<"#">>) THEN [kind |-> "blank"]
       ELSE IF s[1] = "["
       THEN IF SectionMatch(s) /\ IsTableName(SectionName(s))
            THEN [kind |-> "table", name |-> SectionName(s)]
            ELSE [kind |-> "error"]
       ELSE IF eq = 0 \/ ~IsBareKey(key) THEN [kind |-> "error"]
       ELSE IF IsBasicString(val)
       THEN [kind |-> "key", key |-> key, str |-> TRUE, value |-> SubSeq(val, 2, Len(val) - 1)]
       ELSE IF IsDigit(val) THEN [kind |-> "key", key |-> key, str |-> FALSE, value |-> val]
       ELSE [kind |-> "error"]

RECURSIVE TomlItems(_, _, _)
\* the (table, key) items of the lines, each under the table it stands in
TomlItems(lines, table, acc) ==
    IF lines = <<>> THEN acc
    ELSE LET l == TomlLine(Head(lines)) IN
         IF l.kind = "table"
         THEN TomlItems(Tail(lines), l.name, Append(acc, [table |-> l.name, header |-> TRUE]))
         ELSE IF l.kind = "key"
         THEN TomlItems(Tail(lines), table,
                        Append(acc, [table |-> table, header |-> FALSE, key |-> l.key,
                                     str |-> l.str, value |-> l.value]))
         ELSE TomlItems(Tail(lines), table, acc)

\* TOMLDecodeError: a line that is not TOML, a table or a key defined twice,
\* a table named like a key of the root table
TomlRaises(lines, items) ==
    \/ \E i \in 1..Len(lines) : TomlLine(lines[i]).kind = "error"
    \/ \E i, j \in 1..Len(items) :
          /\ i < j
          /\ items[i].table = items[j].table
          /\ items[i].header = items[j].header
          /\ items[i].header \/ items[i].key = items[j].key
    \/ \E i, j \in 1..Len(items) :
          /\ ~items[i].header /\ items[i].table = <<>>
          /\ items[j].header
          /\ \/ items[j].table = items[i].key
             \/ StartsWith(items[j].table, items[i].key \o <<".">>)

\* data.get(key): "table" for a dict, the item for a value of the root
\* table, "none" when there is no such key
TomlGet(items, key) ==
    IF \E i \in 1..Len(items) :
          /\ items[i].header
          /\ items[i].table = key \/ StartsWith(items[i].table, key \o <<".">>)
    THEN [kind |-> "table"]
    ELSE IF \E i \in 1..Len(items) : ~items[i].header /\ items[i].table = <<>> /\ items[i].key = key
    THEN [kind |-> "value"]
    ELSE [kind |-> "none"]

\* project.get(key): the item of the [project] table, <<>> when there is none
TomlTableGet(items, table, key) ==
    SelectSeq(items, LAMBDA it : ~it.header /\ it.table = table /\ it.key = key)

(***************************************************************************)
(* intent/pyproject_reader.py                                              *)
(***************************************************************************)

PyResult(raised, status, value) == [raised |-> raised, status |-> status, value |-> value]

\* after tomllib.loads returned
ReadProject(items) ==
    IF TomlGet(items, StrProject).kind # "table" THEN PyResult(FALSE, "project_missing", <<>>)
    ELSE IF TomlGet(items, StrProject \o <<".">> \o StrRequiresPython).kind = "table"
    THEN PyResult(FALSE, "invalid", <<>>)
    ELSE IF TomlTableGet(items, StrProject, StrRequiresPython) = <<>>
    THEN PyResult(FALSE, "requires_python_missing", <<>>)
    ELSE IF ~TomlTableGet(items, StrProject, StrRequiresPython)[1].str
    THEN PyResult(FALSE, "invalid", <<>>)
    ELSE PyResult(FALSE, "ok", TomlTableGet(items, StrProject, StrRequiresPython)[1].value)

ReadLoaded(lines, items) ==
    IF TomlRaises(lines, items) THEN PyResult(TRUE, "TOMLDecodeError", <<>>)
    ELSE ReadProject(items)

\* a faulty variant: a file that is not TOML is read as an invalid value
read_pyproject_python_Catches(file) ==
    IF ~file.exists THEN PyResult(FALSE, "file_missing", <<>>)
    ELSE IF TomlRaises(splitlines(file.text), TomlItems(splitlines(file.text), <<>>, <<>>))
    THEN PyResult(FALSE, "invalid", <<>>)
    ELSE ReadProject(TomlItems(splitlines(file.text), <<>>, <<>>))

\* read_pyproject_python: (status, value), or the TOMLDecodeError that
\* tomllib.loads raises and nothing catches
read_pyproject_python(file) ==
    IF ~file.exists THEN PyResult(FALSE, "file_missing", <<>>)
    ELSE ReadLoaded(splitlines(file.text), TomlItems(splitlines(file.text), <<>>, <<>>))

(***************************************************************************)
(* intent/cli.py: the writers of the three version files.  Each returns    *)
(* the action it reports and the file it leaves.                           *)
(***************************************************************************)

Upserted(action, after) == [changed |-> action # "unchanged", action |-> action, after |-> after]

\* "[project]"
LineProjectHeader ==
    <<"[", "p", "r", "o", "j", "e", "c", "t", "]">>
\* 'name = "REPLACE_ME"'
LineName ==
    <<"n", "a", "m", "e", " ", "=", " ", "\"", "R", "E", "P", "L", "A", "C", "E", "_",
      "M", "E", "\"">>
\* 'version = "0.0.0"'
LineVersion ==
    <<"v", "e", "r", "s", "i", "o", "n", " ", "=", " ", "\"", "0", ".", "0", ".", "0",
      "\"">>

\* f'requires-python = "{new_spec}"'
RequiresLine(new_spec) ==
    StrRequiresPython \o <<" ", "=", " ", "\"">> \o new_spec \o <<"\"">>

\* the indices of the [project] headers
ProjectHeads(lines) ==
    { i \in 1..Len(lines) : SectionMatch(lines[i]) /\ SectionName(lines[i]) = StrProject }

\* project_end: the index of the first other header after the first
\* [project] header, else len(lines) + 1; the loop breaks there
ProjectEnd(lines) ==
    LET first == CHOOSE i \in ProjectHeads(lines) : \A j \in ProjectHeads(lines) : i <= j
        later == { i \in (first + 1)..Len(lines) :
                     SectionMatch(lines[i]) /\ SectionName(lines[i]) # StrProject }
    IN IF later = {} THEN Len(lines) + 1 ELSE CHOOSE i \in later : \A j \in later : i <= j

\* project_start: the last [project] header the loop met before it broke,
\* 0 (None) when there is none
ProjectStart(lines) ==
    LET met == { i \in ProjectHeads(lines) : i < ProjectEnd(lines) }
    IN IF ProjectHeads(lines) = {} THEN 0 ELSE CHOOSE i \in met : \A j \in met : j <= i

\* the index of the first requires-python line of the section, 0 when none
RequiresIdx(lines, project_start, project_end) ==
    LET found == { i \in (project_start + 1)..(project_end - 1) :
                     /\ StartsWith(StripWs(lines[i]), StrRequiresPython)
                     /\ Contains(StripWs(lines[i]), "=") }
    IN IF found = {} THEN 0 ELSE CHOOSE i \in found : \A j \in found : i <= j

\* lines.insert(idx, line), idx counting from 1
InsertAt(lines, idx, line) ==
    SubSeq(lines, 1, idx - 1) \o <<line>> \o SubSeq(lines, idx, Len(lines))

\* the lines after the upsert; changed is set in every branch but the last,
\* and each of those alters the lines
UpsertLines(lines, new_line, project_start, requires_idx) ==
    IF project_start = 0
    THEN (IF lines # <<>> /\ StripWs(lines[Len(lines)]) # <<>> THEN Append(lines, <<>>) ELSE lines)
            \o <<LineProjectHeader, new_line>>
    ELSE IF requires_idx = 0 THEN InsertAt(lines, project_start + 1, new_line)
    ELSE IF StripWs(lines[requires_idx]) # new_line THEN [lines EXCEPT ![requires_idx] = new_line]
    ELSE lines

UpsertProject(file, lines, new_line, project_start) ==
    LET changed_lines ==
            UpsertLines(lines, new_line, project_start,
                        IF project_start = 0 THEN 0
                        ELSE RequiresIdx(lines, project_start, ProjectEnd(lines)))
    IN IF changed_lines = lines THEN Upserted("unchanged", file)
       ELSE Upserted("updated", File(WriteLines(changed_lines)))

_upsert_pyproject_requires_python(file, new_spec) ==
    IF ~file.exists
    THEN Upserted("created",
                  File(WriteLines(<<LineProjectHeader, LineName, LineVersion,
                                    RequiresLine(new_spec)>>)))
    ELSE UpsertProject(file, splitlines(file.text), RequiresLine(new_spec),
                       ProjectStart(splitlines(file.text)))

\* a faulty variant: the line is added without looking for the one in place
_write_python_version_Appends(file, version) ==
    IF ~file.exists THEN Upserted("created", File(version \o <<"\n">>))
    ELSE Upserted("updated", File(file.text \o version \o <<"\n">>))

_write_python_version(file, version) ==
    IF ~file.exists THEN Upserted("created", File(version \o <<"\n">>))
    ELSE IF file.text = version \o <<"\n">> THEN Upserted("unchanged", file)
    ELSE Upserted("updated", File(version \o <<"\n">>))

\* f"python {version}"
PythonEntry(version) == StrPython \o <<" ">> \o version

ToolVersionsLines(file, lines, new_line, idx) ==
    IF idx # 0
    THEN IF StripWs(lines[idx]) = new_line THEN Upserted("unchanged", file)
         ELSE Upserted("updated", File(WriteLines([lines EXCEPT ![idx] = new_line])))
    ELSE Upserted("updated",
                  File(WriteLines((IF lines # <<>> /\ StripWs(lines[Len(lines)]) # <<>>
                                   THEN Append(lines, <<>>) ELSE lines) \o <<new_line>>)))

_upsert_tool_versions_python(file, version) ==
    IF ~file.exists THEN Upserted("created", File(PythonEntry(version) \o <<"\n">>))
    ELSE ToolVersionsLines(file, splitlines(file.text), PythonEntry(version),
                           PythonLine(splitlines(file.text)))

(***************************************************************************)
(* Inputs of the invocation specifications.                                *)
(***************************************************************************)

NameEval == <<"e", "v", "a", "l">>
NameAudit == <<"a", "u", "d", "i", "t">>
NameBench == <<"b", "e", "n", "c", "h">>

TomlCommands ==
    << [key |-> NameEval, value |-> <<".", "/", "e", "v", "a", "l", " ">>],
       [key |-> NameAudit, value |-> <<".", "/", "a", "u", "d", "i", "t">>] >>

PathScore == <<"s", "c", "o", "r", "e">>
PathBase == <<"b", "a", "s", "e">>
PathStatus == <<"s", "t", "a", "t", "u", "s">>
PathPending == <<"r", "u", "n", ".", "p", "e", "n", "d", "i", "n", "g">>
PathFirst == <<"a", ".", "b", "[", "0", "]">>
PathSixth == <<"a", ".", "b", "[", "5", "]">>

\* the JSON documents a command prints
PayloadGood ==
    JObj(<< [key |-> "a", value |-> JObj(<<[key |-> "b", value |-> JArr(<<JNum(10), JNum(20)>>)]>>)],
            [key |-> "score", value |-> JNum(93)],
            [key |-> "base", value |-> JNum(90)],
            [key |-> "status", value |-> JStr("ok")],
            [key |-> "run", value |-> JObj(<<[key |-> "pending", value |-> JNum(0)]>>)] >>)

PayloadBad ==
    JObj(<< [key |-> "a", value |-> JObj(<<[key |-> "b", value |-> JArr(<<JNum(10), JNum(20)>>)]>>)],
            [key |-> "score", value |-> JNum(85)],
            [key |-> "status", value |-> JStr("bad")],
            [key |-> "run", value |-> JObj(<<[key |-> "pending", value |-> JNum(1)]>>)] >>)

\* what a command does when spawned: its exit code and what it prints
Outcomes ==
    { [returncode |-> 2, json |-> FALSE, payload |-> NoValue],
      [returncode |-> 0, json |-> FALSE, payload |-> NoValue],
      [returncode |-> 0, json |-> TRUE, payload |-> PayloadGood],
      [returncode |-> 0, json |-> TRUE, payload |-> PayloadBad] }

CommandNames == {"eval", "audit"}
Probes == [CommandNames -> Outcomes]

Assertion(command, path, op, value) ==
    [command |-> TStr(command), path |-> TStr(path), op |-> op, value |-> value]
Metric(label, command, path, baseline_path) ==
    [label |-> label, command |-> TStr(command), path |-> TStr(path),
     baseline_path |-> baseline_path]
Threshold(name, command, path, max, min) ==
    [name |-> name, kind |-> "threshold", command |-> TStr(command), path |-> TStr(path),
     max |-> max, min |-> min, value |-> Null]
Equals(name, command, path, value) ==
    [name |-> name, kind |-> "equals", command |-> TStr(command), path |-> TStr(path),
     max |-> Null, min |-> Null, value |-> value]

AssertScore == Assertion(NameEval, PathScore, "gte", JNum(90))
AssertStatus == Assertion(<<" ">> \o NameAudit, PathStatus, "eq", JStr("ok"))
AssertSixth == Assertion(NameEval, PathSixth, "eq", JNum(10))
AssertionPool == {AssertScore, AssertStatus, AssertSixth}

MetricScore == Metric("score", NameEval, PathScore, TStr(PathBase))
MetricPending == Metric("pending", NameAudit, PathPending, Null)

GatePending == Threshold("migrations", NameAudit, PathPending, JNum(0), Null)
GateStatus == Equals("status", NameAudit, PathStatus, JStr("ok"))
GateScore == Threshold("score", NameEval, PathScore, JNum(100), JNum(90))

NoPolicy == [pack |-> Null, strict |-> Null]
NoTomlSummary == [present |-> FALSE, metrics |-> <<>>]

\* an intent.toml with nothing but a version and the command table
PlainDoc ==
    [state |-> "ok", version |-> TStr(V312 \o <<" ">>), commands |-> TomlCommands,
     policy |-> NoPolicy, steps |-> <<>>, summary |-> NoTomlSummary,
     check_hooks |-> <<>>, generate_hooks |-> <<>>, assertions |-> <<>>, gates |-> <<>>]

MaxAssertions == 2

AssertionLists == UNION { [1..n -> AssertionPool] : n \in 0..MaxAssertions }
MetricLists == { <<>>, <<MetricScore>>, <<MetricPending, MetricScore>> }
GateLists == { <<>>, <<GatePending>>, <<GateStatus, GatePending>>, <<GateScore>> }

\* the documents of the check specification: every one loads
CheckDocs ==
    { [PlainDoc EXCEPT !.assertions = a, !.gates = g,
                       !.summary = [present |-> m # <<>>, metrics |-> m]] :
        a \in AssertionLists, m \in MetricLists, g \in GateLists }

\* a document that uses every section, and the ways it can be wrong
FullDoc ==
    [PlainDoc EXCEPT !.steps = << [run |-> Null, command |-> TStr(NameAudit)] >>,
                     !.summary = [present |-> TRUE, metrics |-> <<MetricScore>>],
                     !.check_hooks = <<"make lint">>,
                     !.generate_hooks = <<"make docs">>,
                     !.assertions = <<AssertStatus>>,
                     !.gates = <<GatePending>>]

BrokenDocs ==
    { [FullDoc EXCEPT !.state = "missing"],
      [FullDoc EXCEPT !.state = "invalid_toml"],
      [FullDoc EXCEPT !.version = TInt(3)],
      [FullDoc EXCEPT !.version = TStr(<<"3", ".", "x">>)],
      [FullDoc EXCEPT !.commands = <<>>],
      [FullDoc EXCEPT !.policy = [pack |-> TStr(<<"f", "a", "s", "t">>), strict |-> Null]],
      [FullDoc EXCEPT !.policy = [pack |-> Null, strict |-> TStr(<<"y", "e", "s">>)]],
      [FullDoc EXCEPT !.steps = << [run |-> Null, command |-> TStr(NameBench)] >>],
      [FullDoc EXCEPT !.steps = << [run |-> TStr(<<"l", "s">>), command |-> TStr(NameAudit)] >>],
      [FullDoc EXCEPT !.summary = [present |-> TRUE,
                                   metrics |-> <<Metric("bench", NameBench, PathScore, Null)>>]],
      [FullDoc EXCEPT !.assertions = <<AssertStatus,
                                       Assertion(NameBench, PathScore, "gte", JNum(1))>>],
      [FullDoc EXCEPT !.assertions = <<Assertion(NameEval, PathScore, "about", JNum(1))>>],
      [FullDoc EXCEPT !.gates = <<[GatePending EXCEPT !.kind = "range"]>>],
      [FullDoc EXCEPT !.gates = <<Threshold("bench", NameBench, PathScore, JNum(0), Null)>>] }

PackValues == { Null, TStr(<<"d", "e", "f", "a", "u", "l", "t">>),
                TStr(<<"s", "t", "r", "i", "c", "t", " ">>) }
StrictValues == { Null, TBool(TRUE), TBool(FALSE) }

PolicyDocs ==
    { [FullDoc EXCEPT !.policy = [pack |-> p, strict |-> s]] :
        p \in PackValues, s \in StrictValues }

CliDocs == BrokenDocs \cup PolicyDocs


\* pyproject.toml texts: requires-python at the declared minor version, one
\* minor version below it, not a string, no [project] table, no key, not TOML
PyprojectAligned ==
    <<"[", "p", "r", "o", "j", "e", "c", "t", "]", "\n", "n", "a", "m", "e", " ", "=",
      " ", "\"", "d", "e", "m", "o", "\"", "\n", "r", "e", "q", "u", "i", "r", "e",
      "s", "-", "p", "y", "t", "h", "o", "n", " ", "=", " ", "\"", ">", "=", "3", ".",
      "1", "2", ",", "<", "3", ".", "1", "3", "\"", "\n">>
PyprojectDrift ==
    <<"[", "p", "r", "o", "j", "e", "c", "t", "]", "\n", "n", "a", "m", "e", " ", "=",
      " ", "\"", "d", "e", "m", "o", "\"", "\n", "r", "e", "q", "u", "i", "r", "e",
      "s", "-", "p", "y", "t", "h", "o", "n", " ", "=", " ", "\"", ">", "=", "3", ".",
      "1", "1", ",", "<", "3", ".", "1", "3", "\"", "\n", "\n", "[", "t", "o", "o",
      "l", ".", "r", "u", "f", "f", "]", "\n", "l", "i", "n", "e", "-", "l", "e", "n",
      "g", "t", "h", " ", "=", " ", "1", "0", "0", "\n">>
PyprojectInvalid ==
    <<"[", "p", "r", "o", "j", "e", "c", "t", "]", "\n", "r", "e", "q", "u", "i", "r",
      "e", "s", "-", "p", "y", "t", "h", "o", "n", " ", "=", " ", "3", "\n">>
PyprojectNoProject ==
    <<"[", "t", "o", "o", "l", ".", "r", "u", "f", "f", "]", "\n", "l", "i", "n", "e",
      "-", "l", "e", "n", "g", "t", "h", " ", "=", " ", "1", "0", "0">>
PyprojectNoRequires ==
    <<"#", " ", "p", "a", "c", "k", "a", "g", "i", "n", "g", "\n", "[", "p", "r", "o",
      "j", "e", "c", "t", "]", "\n", "n", "a", "m", "e", " ", "=", " ", "\"", "d", "e",
      "m", "o", "\"", "\n", "\n", "[", "t", "o", "o", "l", ".", "r", "u", "f", "f",
      "]", "\n", "l", "i", "n", "e", "-", "l", "e", "n", "g", "t", "h", " ", "=", " ",
      "1", "0", "0", "\n">>
PyprojectBroken ==
    <<"[", "p", "r", "o", "j", "e", "c", "t", "\n">>

\* a pyproject.toml that asks for a newer Python than the config declares
PyprojectNewer ==
    <<"[", "p", "r", "o", "j", "e", "c", "t", "]", "\n", "r", "e", "q", "u", "i", "r",
      "e", "s", "-", "p", "y", "t", "h", "o", "n", " ", "=", " ", "\"", ">", "=", "3",
      ".", "1", "3", "\"", "\n">>

\* pyproject.toml, for the commands that only read it
CliPyprojects == { Absent, File(PyprojectInvalid), File(PyprojectAligned), File(PyprojectBroken) }

\* the version pins: none, or both at another minor version
VersionPins ==
    { [python_version |-> Absent, tool_versions |-> Absent],
      [python_version |-> File(V311 \o <<"\n">>),
       tool_versions |-> File(PythonEntry(V311) \o <<"\n">>)] }

UserJustfile == File(<<"default:", "\t@echo user-owned">>)

CliDisks ==
    { [files |-> [p \in Paths |-> IF p = JustPath THEN j ELSE Absent], pyproject |-> py,
       python_version |-> pin.python_version, tool_versions |-> pin.tool_versions] :
        j \in {Absent, UserJustfile}, py \in CliPyprojects, pin \in VersionPins }

\* the renders of every config the documents above load to, computed once
LoadResults == { load_intent(d) : d \in CliDocs \cup CheckDocs }
LoadedConfigs == { l.cfg : l \in { x \in LoadResults : x.ok } }
GeneratedTable == [c \in LoadedConfigs |-> [p \in Paths |-> Render(p, c)]]
Generated(path, cfg) == GeneratedTable[cfg][path]

\* the disk after a clean sync --write of the document
SyncedDisk(d) ==
    [files |-> [p \in Paths |-> File(Generated(p, load_intent(d).cfg))],
     pyproject |-> Absent, python_version |-> Absent, tool_versions |-> Absent]

\* the same disk with a pyproject.toml the declared version does not satisfy
NewerDisk(d) == [SyncedDisk(d) EXCEPT !.pyproject = File(PyprojectNewer)]

\* the disk after a clean sync --write, with a pyproject.toml that is not TOML
BrokenDisk(d) == [SyncedDisk(d) EXCEPT !.pyproject = File(PyprojectBroken)]

\* the three version files of the reconcile specification: missing, at the
\* declared minor version, at another one, without the key or the entry,
\* blank, of more than one line, and not TOML
ReconcilePyprojects ==
    { Absent, File(PyprojectAligned), File(PyprojectDrift), File(PyprojectInvalid),
      File(PyprojectNoProject), File(PyprojectNoRequires), File(PyprojectBroken) }

PythonVersionFiles ==
    { Absent,
      File(<<"3", ".", "1", "2", "\n">>),
      File(<<"3", ".", "1", "2", ".", "6", "\n">>),
      File(<<"3", ".", "1", "1", ".", "9", "\n">>),
      File(<<"3", ".", "1", "1", ".", "9", "\n", "3", ".", "1", "0", ".", "4", "\n">>),
      File(<<"\n">>) }

ToolVersionsFiles ==
    { Absent,
      File(<<"p", "y", "t", "h", "o", "n", " ", "3", ".", "1", "2", "\n">>),
      File(<<"p", "y", "t", "h", "o", "n", " ", "3", ".", "1", "2", ".", "4", "\n">>),
      File(<<"n", "o", "d", "e", "j", "s", " ", "2", "0", ".", "1", "\n", "p", "y", "t", "h", "o", "n", " ", "3", ".", "1", "1", ".", "9", "\n">>),
      File(<<"n", "o", "d", "e", "j", "s", " ", "2", "0", ".", "1">>) }

ReconcileDisks ==
    { [files |-> [p \in Paths |-> Absent], pyproject |-> py, python_version |-> pv,
       tool_versions |-> tv] :
        py \in ReconcilePyprojects, pv \in PythonVersionFiles, tv \in ToolVersionsFiles }

\* a config at each of two versions, and an intent.toml that does not load
ReconcileDocs ==
    { PlainDoc, [PlainDoc EXCEPT !.version = TStr(V311)],
      [PlainDoc EXCEPT !.commands = <<>>] }

(***************************************************************************)
(* intent/cli.py: the commands.  Each operator takes what intent.toml      *)
(* holds (d), what is on disk (dsk) and the command line, and returns what *)
(* the invocation did: its exit code, the code it printed, the files after *)
(* it, the check commands and hooks it ran.                                *)
(***************************************************************************)

NoReport == [kind |-> "none"]

\* an invocation that ended before it wrote a file or spawned a process
Ended(cmd, args, dsk, exit, code, load, report) ==
    [cmd |-> cmd, args |-> args, exit |-> exit, code |-> code, load |-> load,
     disk |-> dsk, written |-> {}, ran |-> <<>>, hooks |-> <<>>, report |-> report]

\* except FileNotFoundError / except IntentConfigError: exit code 2
LoadFailed(cmd, args, dsk, l) ==
    Ended(cmd, args, dsk, 2,
          IF l.error = "FileNotFoundError" THEN ERR_CONFIG_NOT_FOUND ELSE ERR_CONFIG_INVALID,
          "failed", [kind |-> "config_error", message |-> l.message])

\* an exception nothing catches: the traceback and exit code 1, raised
\* before the command wrote a file or spawned a process
Crashed(cmd, args, dsk, error) ==
    Ended(cmd, args, dsk, 1, error, "ok", [kind |-> "traceback"])

DriftReport(files, cfg) ==
    [p \in Paths |-> _generated_drift_status(files[p], Generated(p, cfg))]

\* a faulty variant: --adopt and --force are not checked against --write
SyncConflict_AdoptAlone(flags) ==
    \/ flags.write /\ flags.dry_run
    \/ flags.adopt /\ flags.force
    \/ (flags.show_json \/ flags.explain) /\ flags.write

\* the four flag checks at the head of sync
SyncConflict(flags) ==
    \/ flags.write /\ flags.dry_run
    \/ flags.adopt /\ flags.force
    \/ (flags.adopt \/ flags.force) /\ ~flags.write
    \/ (flags.show_json \/ flags.explain) /\ flags.write

\* sync; exits is what each generate hook exits with
SyncWritten(flags, dsk, versions, w, hook_results) ==
    [cmd |-> "sync", args |-> flags,
     exit |-> IF \E i \in 1..Len(hook_results) : ~hook_results[i].ok THEN 1 ELSE 0,
     code |-> IF \E i \in 1..Len(hook_results) : ~hook_results[i].ok THEN ERR_PLUGIN
              ELSE NoCode,
     load |-> "ok", disk |-> [dsk EXCEPT !.files = w.files],
     written |-> { p \in Paths : w.files[p] # dsk.files[p] },
     ran |-> <<>>, hooks |-> hook_results, report |-> [kind |-> "sync", versions |-> versions]]

\* a faulty variant: the generate hooks run whether the writer raised or not
SyncWrite_HooksAnyway(cfg, dsk, flags, exits, versions, w) ==
    IF w.error # NoError
    THEN [cmd |-> "sync", args |-> flags, exit |-> 1, code |-> ERR_OWNERSHIP,
          load |-> "ok", disk |-> [dsk EXCEPT !.files = w.files],
          written |-> { p \in Paths : w.files[p] # dsk.files[p] },
          ran |-> <<>>,
          hooks |-> _run_plugin_hooks(cfg.plugin_generate_hooks, "generate", exits),
          report |-> [kind |-> "sync", versions |-> versions]]
    ELSE SyncWritten(flags, dsk, versions, w,
                     _run_plugin_hooks(cfg.plugin_generate_hooks, "generate", exits))

\* the write branch: both files, then the generate hooks unless the writer raised
SyncWrite(cfg, dsk, flags, exits, versions, w) ==
    IF w.error # NoError
    THEN [cmd |-> "sync", args |-> flags, exit |-> 1, code |-> ERR_OWNERSHIP,
          load |-> "ok", disk |-> [dsk EXCEPT !.files = w.files],
          written |-> { p \in Paths : w.files[p] # dsk.files[p] },
          ran |-> <<>>, hooks |-> <<>>, report |-> [kind |-> "sync", versions |-> versions]]
    ELSE SyncWritten(flags, dsk, versions, w,
                     _run_plugin_hooks(cfg.plugin_generate_hooks, "generate", exits))

SyncVersions(cfg, dsk, flags, exits, versions) ==
    IF flags.dry_run
    THEN Ended("sync", flags, dsk, 0, NoCode, "ok",
               [kind |-> "sync", versions |-> versions,
                preview |-> [p \in Paths |-> _preview_status(dsk.files[p], Generated(p, cfg))]])
    ELSE IF ~flags.write
    THEN Ended("sync", flags, dsk, 0, NoCode, "ok", [kind |-> "sync", versions |-> versions])
    ELSE SyncWrite(cfg, dsk, flags, exits, versions,
                   SyncWrites(dsk.files, Generated(CiPath, cfg), Generated(JustPath, cfg),
                              SyncMode(flags.adopt, flags.force)))

\* py is what read_pyproject_python does: --show-json reads it for the
\* payload, --explain alone does not, every other run for the cross-check
SyncRead(cfg, dsk, flags, exits, py) ==
    IF flags.show_json
    THEN IF py.raised THEN Crashed("sync", flags, dsk, py.status)
         ELSE Ended("sync", flags, dsk, 0, NoCode, "ok", [kind |-> "show"])
    ELSE IF flags.explain
    THEN Ended("sync", flags, dsk, 0, NoCode, "ok", [kind |-> "show"])
    ELSE IF py.raised THEN Crashed("sync", flags, dsk, py.status)
    ELSE SyncVersions(cfg, dsk, flags, exits,
                      _check_versions(cfg.python_version, FALSE, py.status, py.value))

SyncLoaded(l, dsk, flags, exits) ==
    IF ~l.ok THEN LoadFailed("sync", flags, dsk, l)
    ELSE SyncRead(l.cfg, dsk, flags, exits, read_pyproject_python(dsk.pyproject))

sync(d, dsk, flags, exits) ==
    IF SyncConflict(flags)
    THEN Ended("sync", flags, dsk, 2, ERR_USAGE_CONFLICT, "not_attempted", NoReport)
    ELSE SyncLoaded(load_intent(d), dsk, flags, exits)

\* effective_strict = cfg.policy_strict if strict is None else strict
EffectiveStrict(strict, cfg) ==
    IF strict = "none" THEN cfg.policy_strict ELSE strict = "strict"

\* the commands check hands to _run_json_commands
CommandsForJson(cfg) ==
    { cfg.checks_assertions[i].command : i \in 1..Len(cfg.checks_assertions) }
        \cup { cfg.ci_summary.metrics[i].command : i \in 1..Len(cfg.ci_summary.metrics) }

\* the commands the gates read: they join the set above, so that a command
\* is spawned once whoever reads it
GateCommands(cfg) == { cfg.checks_gates[i].command : i \in 1..Len(cfg.checks_gates) }

AllOk(results) == \A i \in 1..Len(results) : results[i].ok

CheckArgs(strict, output_format) == [strict |-> strict, format |-> output_format]

\* --format json: the six tests that set drift before the payload is built
DriftJson(versions, files, plugin_results, checks, gates, metrics) ==
    \/ ~versions.ok
    \/ ~files[CiPath].ok
    \/ ~files[JustPath].ok
    \/ \E i \in 1..Len(plugin_results) : ~plugin_results[i].ok
    \/ \E i \in 1..Len(checks) : ~checks[i].ok
    \/ \E i \in 1..Len(gates) : ~gates[i].ok
    \/ \E i \in 1..Len(metrics) : ~metrics[i].ok

\* a faulty variant: the text report does not count a failed metric
DriftText_MetricsShown(versions, files, plugin_results, checks, gates, metrics) ==
    \/ ~versions.ok
    \/ ~files[CiPath].ok
    \/ ~files[JustPath].ok
    \/ ~AllOk(plugin_results)
    \/ ~AllOk(checks)
    \/ ~AllOk(gates)

\* --format text: drift as the printing of each part sets it
DriftText(versions, files, plugin_results, checks, gates, metrics) ==
    \/ ~versions.ok
    \/ ~files[CiPath].ok
    \/ ~files[JustPath].ok
    \/ ~AllOk(plugin_results)
    \/ ~AllOk(checks)
    \/ ~AllOk(gates)
    \/ ~AllOk(metrics)

\* raise typer.Exit(code=1 if drift else 0); ok is the payload's top-level
\* field, printed under --format json only
CheckExit(args, dsk, effective_strict, versions, files, plugin_results, run, checks, gates, metrics, drift) ==
    [cmd |-> "check", args |-> args, exit |-> IF drift THEN 1 ELSE 0,
     code |-> NoCode, load |-> "ok", disk |-> dsk, written |-> {},
     ran |-> run.ran, hooks |-> plugin_results,
     report |-> [kind |-> "check", payload |-> args.format = "json", ok |-> ~drift,
                 strict |-> effective_strict,
                 versions |-> versions, files |-> files, results |-> run.results,
                 checks |-> checks, gates |-> gates, metrics |-> metrics]]

CheckReport(args, dsk, effective_strict, versions, files, plugin_results, run, checks, gates, metrics) ==
    CheckExit(args, dsk, effective_strict, versions, files, plugin_results, run,
              checks, gates, metrics,
              IF args.format = "json"
              THEN DriftJson(versions, files, plugin_results, checks, gates, metrics)
              ELSE DriftText(versions, files, plugin_results, checks, gates, metrics))

\* after the commands ran: the assertions, the gates and the metrics read
\* the same table of results
CheckEvaluate(cfg, args, dsk, effective_strict, versions, files, plugin_results, run) ==
    IF run.raised # ""
    THEN [cmd |-> "check", args |-> args, exit |-> 1, code |-> run.raised,
          load |-> "ok", disk |-> dsk, written |-> {}, ran |-> <<>>,
          hooks |-> plugin_results, report |-> [kind |-> "traceback"]]
    ELSE CheckReport(args, dsk, effective_strict, versions, files, plugin_results, run,
                     _run_check_assertions(cfg.checks_assertions, run.results),
                     _run_check_gates(cfg.checks_gates, run.results),
                     _evaluate_summary_metrics(cfg.ci_summary.metrics, run.results))

\* py is what read_pyproject_python does inside _check_versions, the first
\* call after the config is loaded
CheckRead(cfg, args, dsk, effective_strict, outcomes, exits, py) ==
    IF py.raised THEN Crashed("check", args, dsk, py.status)
    ELSE CheckEvaluate(cfg, args, dsk, effective_strict,
                       _check_versions(cfg.python_version, effective_strict,
                                       py.status, py.value),
                       DriftReport(dsk.files, cfg),
                       _run_plugin_hooks(cfg.plugin_check_hooks, "check", exits),
                       _run_json_commands(cfg.commands,
                                          CommandsForJson(cfg) \cup GateCommands(cfg), outcomes))

CheckLoaded(cfg, args, dsk, effective_strict, outcomes, exits) ==
    CheckRead(cfg, args, dsk, effective_strict, outcomes, exits,
              read_pyproject_python(dsk.pyproject))

CheckLoad(l, dsk, args, outcomes, exits) ==
    IF ~l.ok THEN LoadFailed("check", args, dsk, l)
    ELSE CheckLoaded(l.cfg, args, dsk, EffectiveStrict(args.strict, l.cfg), outcomes, exits)

\* check; strict is the flag ("none" when neither --strict nor --no-strict is
\* given), outcomes what each command does when spawned, exits what each
\* check hook exits with
check(d, dsk, strict, output_format, outcomes, exits) ==
    CheckLoad(load_intent(d), dsk, CheckArgs(strict, output_format), outcomes, exits)

\* doctor: the version cross-check and both files
DoctorReport(strict, dsk, effective_strict, versions, files) ==
    Ended("doctor", strict, dsk,
          IF ~versions.ok \/ \E p \in Paths : ~files[p].ok THEN 1 ELSE 0, NoCode, "ok",
          [kind |-> "doctor", strict |-> effective_strict, versions |-> versions,
           files |-> files])

DoctorRead(cfg, strict, dsk, effective_strict, py) ==
    IF py.raised THEN Crashed("doctor", strict, dsk, py.status)
    ELSE DoctorReport(strict, dsk, effective_strict,
                      _check_versions(cfg.python_version, effective_strict,
                                      py.status, py.value),
                      DriftReport(dsk.files, cfg))

DoctorLoaded(cfg, strict, dsk, effective_strict) ==
    DoctorRead(cfg, strict, dsk, effective_strict, read_pyproject_python(dsk.pyproject))

DoctorLoad(l, dsk, strict) ==
    IF ~l.ok THEN LoadFailed("doctor", strict, dsk, l)
    ELSE DoctorLoaded(l.cfg, strict, dsk, EffectiveStrict(strict, l.cfg))

doctor(d, dsk, strict) == DoctorLoad(load_intent(d), dsk, strict)

\* show: the resolved config, printed
ShowRead(cfg, dsk, py) ==
    IF py.raised THEN Crashed("show", <<>>, dsk, py.status)
    ELSE Ended("show", <<>>, dsk, 0, NoCode, "ok",
               [kind |-> "show", policy_strict |-> cfg.policy_strict])

ShowLoad(l, dsk) ==
    IF ~l.ok THEN LoadFailed("show", <<>>, dsk, l)
    ELSE ShowRead(l.cfg, dsk, read_pyproject_python(dsk.pyproject))

show(d, dsk) == ShowLoad(load_intent(d), dsk)

DigitChars == <<"0", "1", "2", "3", "4", "5", "6", "7", "8", "9">>

RECURSIVE DigitsOf(_)
\* str(n) for a natural number
DigitsOf(n) ==
    IF n < 10 THEN <<DigitChars[n + 1]>>
    ELSE DigitsOf(n \div 10) \o <<DigitChars[(n % 10) + 1]>>

RECURSIVE TupleItems(_)
TupleItems(t) ==
    IF Len(t) = 1 THEN DigitsOf(t[1])
    ELSE DigitsOf(Head(t)) \o <<",", " ">> \o TupleItems(Tail(t))

\* str(lower) for a tuple of integers: "(3, 12)", "(3,)"
TupleStr(t) ==
    IF Len(t) = 1 THEN <<"(">> \o DigitsOf(t[1]) \o <<",", ")">>
    ELSE <<"(">> \o TupleItems(t) \o <<")">>

_same_major_minor(lhs, rhs) ==
    LET left == parse_version(lhs)
        right == parse_version(rhs)
    IN IF left = NoVersion \/ right = NoVersion \/ Len(left) < 2 \/ Len(right) < 2 THEN FALSE
       ELSE SubSeq(left, 1, 2) = SubSeq(right, 1, 2)

\* None is <<>>
_next_minor(version) ==
    LET parsed == parse_version(version) IN
    IF parsed = NoVersion \/ Len(parsed) < 2 THEN <<>>
    ELSE DigitsOf(parsed[1]) \o <<".">> \o DigitsOf(parsed[2] + 1)

\* what reconcile does with one file: line is what it reports when it does
\* not write, write whether it calls the file's writer, unresolved whether
\* it skipped the file
Step(line, write, unresolved) == [line |-> line, write |-> write, unresolved |-> unresolved]
Aligned == Step("aligned", FALSE, FALSE)
Upsert(apply, line) == Step(line, apply, FALSE)
Existing(apply, allow_existing, line) ==
    Step(IF apply THEN "skipped" ELSE line, apply /\ allow_existing, apply /\ ~allow_existing)

\* lower is not None and _same_major_minor(str(lower), target)
ExactLowerMatch(lower, target) ==
    lower # NoVersion /\ _same_major_minor(TupleStr(lower), target)

\* a faulty variant: an aligned requires-python is rewritten all the same
ReconcilePyproject_NoAligned(py, target, apply, allow_existing) ==
    IF py.status = "file_missing" THEN Upsert(apply, "missing")
    ELSE IF py.status = "project_missing"
    THEN Existing(apply, allow_existing, "[project] missing")
    ELSE IF py.status = "requires_python_missing"
    THEN Existing(apply, allow_existing, "requires-python missing")
    ELSE IF py.status = "invalid" THEN Step("invalid/unreadable", FALSE, apply)
    ELSE Existing(apply, allow_existing, "drift")

\* py is what read_pyproject_python returned
ReconcilePyproject(py, target, apply, allow_existing) ==
    IF py.status = "file_missing" THEN Upsert(apply, "missing")
    ELSE IF py.status = "project_missing"
    THEN Existing(apply, allow_existing, "[project] missing")
    ELSE IF py.status = "requires_python_missing"
    THEN Existing(apply, allow_existing, "requires-python missing")
    ELSE IF py.status = "invalid" THEN Step("invalid/unreadable", FALSE, apply)
    ELSE IF /\ check_requires_python_range(target, py.value) = "True"
            /\ ExactLowerMatch(max_lower_bound(StrItems(py.value)), target)
    THEN Aligned
    ELSE Existing(apply, allow_existing, "drift")

\* a faulty variant: a .python-version that is there is written only with
\* --allow-existing
ReconcilePythonVersion_ExistsChecked(file, current, target, apply, allow_existing) ==
    IF current = <<>>
    THEN IF ~file.exists THEN Upsert(apply, "missing")
         ELSE Existing(apply, allow_existing, "missing")
    ELSE IF _same_major_minor(current, target) THEN Aligned
    ELSE Existing(apply, allow_existing, "drift")

\* current is what _read_python_version_file returned, <<>> for None; the
\* branch does not look at whether the file is there
ReconcilePythonVersion(file, current, target, apply, allow_existing) ==
    IF current = <<>> THEN Upsert(apply, "missing")
    ELSE IF _same_major_minor(current, target) THEN Aligned
    ELSE Existing(apply, allow_existing, "drift")

\* current is what _read_tool_versions_python returned, <<>> for None
ReconcileToolVersions(file, current, target, apply, allow_existing) ==
    IF current = <<>>
    THEN IF ~file.exists /\ apply THEN Upsert(apply, "missing or no python entry")
         ELSE Existing(apply, allow_existing, "missing or no python entry")
    ELSE IF _same_major_minor(current, target) THEN Aligned
    ELSE Existing(apply, allow_existing, "drift")

PyprojectPath == "pyproject.toml"
PythonVersionPath == ".python-version"
ToolVersionsPath == ".tool-versions"
VersionPaths == {PyprojectPath, PythonVersionPath, ToolVersionsPath}

\* the file of the disk at one of the three paths
VersionFile(dsk, path) ==
    IF path = PyprojectPath THEN dsk.pyproject
    ELSE IF path = PythonVersionPath THEN dsk.python_version
    ELSE dsk.tool_versions

ReconcileArgs(plan, apply, allow_existing) ==
    [plan |-> plan, apply |-> apply, allow_existing |-> allow_existing]

RecommendedPyproject(target, next_minor) ==
    IF next_minor # <<>> THEN <<">", "=">> \o target \o <<",", "<">> \o next_minor
    ELSE <<">", "=">> \o target

\* the end of reconcile: exit 1 after an apply that skipped a file; before
\* is the disk the run found
ReconcileExit(args, dsk, after, lines, unresolved) ==
    [cmd |-> "reconcile", args |-> args,
     exit |-> IF args.apply /\ unresolved THEN 1 ELSE 0, code |-> NoCode,
     load |-> "ok", before |-> dsk, disk |-> after,
     written |-> { p \in VersionPaths : VersionFile(after, p) # VersionFile(dsk, p) },
     ran |-> <<>>, hooks |-> <<>>,
     report |-> [kind |-> "reconcile", unresolved |-> unresolved, files |-> lines]]

\* the three files in turn: py, pv, tv are what reconcile does with each,
\* pyw, pvw, tvw what the writer of each does when it is called
ReconcileWrite(args, dsk, py, pv, tv, pyw, pvw, tvw) ==
    ReconcileExit(args, dsk,
        [dsk EXCEPT !.pyproject = IF py.write THEN pyw.after ELSE @,
                    !.python_version = IF pv.write THEN pvw.after ELSE @,
                    !.tool_versions = IF tv.write THEN tvw.after ELSE @],
        [p \in VersionPaths |->
            IF p = PyprojectPath THEN IF py.write THEN pyw.action ELSE py.line
            ELSE IF p = PythonVersionPath THEN IF pv.write THEN pvw.action ELSE pv.line
            ELSE IF tv.write THEN tvw.action ELSE tv.line],
        py.unresolved \/ pv.unresolved \/ tv.unresolved)

ReconcileFiles(args, dsk, target, recommended_pyproject, py, pv, tv) ==
    ReconcileWrite(args, dsk, py, pv, tv,
        _upsert_pyproject_requires_python(dsk.pyproject, recommended_pyproject),
        _write_python_version(dsk.python_version, target),
        _upsert_tool_versions_python(dsk.tool_versions, target))

\* py is what read_pyproject_python does: the first of the three reads
ReconcileRead(args, dsk, target, py) ==
    IF py.raised THEN Crashed("reconcile", args, dsk, py.status)
    ELSE ReconcileFiles(args, dsk, target, RecommendedPyproject(target, _next_minor(target)),
            ReconcilePyproject(py, target, args.apply, args.allow_existing),
            ReconcilePythonVersion(dsk.python_version,
                                   _read_python_version_file(dsk.python_version),
                                   target, args.apply, args.allow_existing),
            ReconcileToolVersions(dsk.tool_versions,
                                  _read_tool_versions_python(dsk.tool_versions),
                                  target, args.apply, args.allow_existing))

ReconcileTarget(args, dsk, target) ==
    ReconcileRead(args, dsk, target, read_pyproject_python(dsk.pyproject))

ReconcileLoad(l, dsk, args) ==
    IF ~l.ok THEN LoadFailed("reconcile", args, dsk, l)
    ELSE ReconcileTarget(args, dsk, l.cfg.python_version)

\* reconcile --plan | --apply [--allow-existing]
reconcile(d, dsk, plan, apply, allow_existing) ==
    IF plan = apply
    THEN Ended("reconcile", ReconcileArgs(plan, apply, allow_existing), dsk, 2,
               ERR_USAGE_CONFLICT, "not_attempted", NoReport)
    ELSE ReconcileLoad(load_intent(d), dsk, ReconcileArgs(plan, apply, allow_existing))

(***************************************************************************)
(* The invocation specifications.                                          *)
(***************************************************************************)

\* a disk where neither generated file is in place: the workflow is missing
\* and the justfile is the user's own
StaleDisk ==
    [files |-> [p \in Paths |-> IF p = JustPath THEN UserJustfile ELSE Absent],
     pyproject |-> Absent, python_version |-> Absent, tool_versions |-> Absent]

NoInvocation == [cmd |-> "none"]

SyncFlags ==
    [show_json : BOOLEAN, explain : BOOLEAN, write : BOOLEAN, dry_run : BOOLEAN,
     adopt : BOOLEAN, force : BOOLEAN]
StrictFlags == {"none", "strict", "no-strict"}
Formats == {"text", "json"}
HookExits(hooks) == [1..Len(hooks) -> {0, 1}]

\* what the commands do in the invocation specification: both print the
\* good document, or eval prints the one with a lower score and no baseline
AllGood == [n \in CommandNames |-> [returncode |-> 0, json |-> TRUE, payload |-> PayloadGood]]
CliProbes ==
    { AllGood,
      [AllGood EXCEPT !["eval"] = [returncode |-> 0, json |-> TRUE, payload |-> PayloadBad]] }

CliInit ==
    /\ doc \in CliDocs
    /\ probe \in CliProbes
    /\ disk \in CliDisks \cup (IF load_intent(doc).ok THEN {BrokenDisk(doc)} ELSE {})
    /\ inv = NoInvocation
    /\ VIdle
    /\ RIdle
    /\ FIdle

CheckInit ==
    /\ doc \in CheckDocs
    /\ probe \in Probes
    /\ disk \in {SyncedDisk(doc), NewerDisk(doc), StaleDisk}
    /\ inv = NoInvocation
    /\ VIdle
    /\ RIdle
    /\ FIdle

InvokeSync(flags, exits) ==
    LET r == sync(doc, disk, flags, exits) IN
    /\ inv = NoInvocation
    /\ inv' = r
    /\ disk' = r.disk
    /\ UNCHANGED <<doc, probe, vvars, rvars, fvars>>

InvokeCheck(strict, output_format, exits) ==
    LET r == check(doc, disk, strict, output_format, probe, exits) IN
    /\ inv = NoInvocation
    /\ inv' = r
    /\ disk' = r.disk
    /\ UNCHANGED <<doc, probe, vvars, rvars, fvars>>

InvokeDoctor(strict) ==
    LET r == doctor(doc, disk, strict) IN
    /\ inv = NoInvocation
    /\ inv' = r
    /\ disk' = r.disk
    /\ UNCHANGED <<doc, probe, vvars, rvars, fvars>>

InvokeShow ==
    LET r == show(doc, disk) IN
    /\ inv = NoInvocation
    /\ inv' = r
    /\ disk' = r.disk
    /\ UNCHANGED <<doc, probe, vvars, rvars, fvars>>

InvokeReconcile(plan, apply, allow_existing) ==
    LET r == reconcile(doc, disk, plan, apply, allow_existing) IN
    /\ inv = NoInvocation
    /\ inv' = r
    /\ disk' = r.disk
    /\ UNCHANGED <<doc, probe, vvars, rvars, fvars>>

\* the paths handed to _resolve_json_path
ResolvePaths ==
    { PathFirst, PathSixth, PathScore, PathPending, <<"a", ".", "b">>, <<"a", ".", "c">>,
      <<"a", "[", "0", "]">>, <<"s", "c", "o", "r", "e", ".", "x">>, <<"a", ".", ".", "b">>,
      <<"a", ".", "b", "[", "x", "]">>, <<" ">>,
      <<"a", ".", "b", "[", "1", "]", "[", "0", "]">> }

\* a call _resolve_json_path(payload, path) on what a command printed
ResolvePath(name, path) ==
    /\ inv = NoInvocation
    /\ probe[name].returncode = 0
    /\ probe[name].json
    /\ inv' = [cmd |-> "resolve", payload |-> probe[name].payload, path |-> path,
               result |-> _resolve_json_path(probe[name].payload, path)]
    /\ UNCHANGED <<doc, probe, disk, vvars, rvars, fvars>>

\* the command has returned; the shell takes the next command line
Prompt ==
    /\ inv # NoInvocation
    /\ inv' = NoInvocation
    /\ UNCHANGED <<doc, probe, disk, vvars, rvars, fvars>>

CliNext ==
    \/ \E flags \in SyncFlags : \E exits \in HookExits(doc.generate_hooks) :
          InvokeSync(flags, exits)
    \/ \E strict \in StrictFlags, output_format \in Formats :
          \E exits \in HookExits(doc.check_hooks) : InvokeCheck(strict, output_format, exits)
    \/ \E strict \in StrictFlags : InvokeDoctor(strict)
    \/ InvokeShow
    \/ \E plan, apply, allow_existing \in BOOLEAN : InvokeReconcile(plan, apply, allow_existing)
    \/ Prompt

SpecCli == CliInit /\ [][CliNext]_vars

CheckNext ==
    \/ \E output_format \in Formats : \E exits \in HookExits(doc.check_hooks) :
          InvokeCheck("none", output_format, exits)
    \/ \E name \in CommandNames, path \in ResolvePaths : ResolvePath(name, path)
    \/ Prompt

SpecCheck == CheckInit /\ [][CheckNext]_vars

ReconcileInit ==
    /\ doc \in ReconcileDocs
    /\ probe = AllGood
    /\ disk \in ReconcileDisks
    /\ inv = NoInvocation
    /\ VIdle
    /\ RIdle
    /\ FIdle

ReconcileNext ==
    \/ \E plan, apply, allow_existing \in BOOLEAN : InvokeReconcile(plan, apply, allow_existing)
    \/ Prompt

SpecReconcile == ReconcileInit /\ [][ReconcileNext]_vars

\* the values handed to the three writers
RequiresSpecs == { RecommendedPyproject(V312, _next_minor(V312)),
                   RecommendedPyproject(V311, _next_minor(V311)) }
PinVersions == {V312, V311}

\* a writer was called: fn names it, value is what it was asked to write,
\* before the file it found, changed and action the pair it returned
Called(fn, value, before, w) ==
    [cmd |-> fn, value |-> value, before |-> before, changed |-> w.changed,
     action |-> w.action]

UpsertInit ==
    /\ doc = PlainDoc
    /\ probe = AllGood
    /\ disk \in ReconcileDisks
    /\ inv = NoInvocation
    /\ VIdle
    /\ RIdle
    /\ FIdle

CallUpsertPyproject(new_spec) ==
    LET w == _upsert_pyproject_requires_python(disk.pyproject, new_spec) IN
    /\ inv' = Called("_upsert_pyproject_requires_python", new_spec, disk.pyproject, w)
    /\ disk' = [disk EXCEPT !.pyproject = w.after]
    /\ UNCHANGED <<doc, probe, vvars, rvars, fvars>>

CallWritePythonVersion(version) ==
    LET w == _write_python_version(disk.python_version, version) IN
    /\ inv' = Called("_write_python_version", version, disk.python_version, w)
    /\ disk' = [disk EXCEPT !.python_version = w.after]
    /\ UNCHANGED <<doc, probe, vvars, rvars, fvars>>

CallUpsertToolVersions(version) ==
    LET w == _upsert_tool_versions_python(disk.tool_versions, version) IN
    /\ inv' = Called("_upsert_tool_versions_python", version, disk.tool_versions, w)
    /\ disk' = [disk EXCEPT !.tool_versions = w.after]
    /\ UNCHANGED <<doc, probe, vvars, rvars, fvars>>

UpsertNext ==
    \/ \E new_spec \in RequiresSpecs : CallUpsertPyproject(new_spec)
    \/ \E version \in PinVersions : CallWritePythonVersion(version)
    \/ \E version \in PinVersions : CallUpsertToolVersions(version)

SpecUpsert == UpsertInit /\ [][UpsertNext]_vars

(***************************************************************************)
(* Claims about the files specification.                                   *)
(***************************************************************************)

\* a file that exists and does not contain the marker
Foreign(file) == file.exists /\ ~HasMarker(file.text)

\* C1: writing marked content over an existing file that lacks the marker
\* and differs fails in strict and adopt with an OwnershipError naming the
\* path and the mode, the file left as it was; in force the file is
\* overwritten.  Neither a direct write nor sync replaces foreign content
\* unless force was asked for.
C1_ForeignOnlyUnderForce ==
    /\ (/\ out.kind = "write"
        /\ HasMarker(out.content)
        /\ Foreign(out.before)
        /\ out.before.text # out.content)
       => IF out.mode \in {"strict", "adopt"}
          THEN /\ out.result = "OwnershipError"
               /\ out.error = [type |-> "OwnershipError", path |-> out.path,
                               mode |-> out.mode]
               /\ fs[out.path] = out.before
          ELSE /\ out.result = "updated"
               /\ fs[out.path] = File(out.content)
    /\ out.kind = "sync"
       => \A p \in Paths :
            (Foreign(out.before[p]) /\ fs[p] # out.before[p]) => out.force

\* C1 witness: an adopt write met a foreign file and was refused
C1_Witness ==
    /\ out.kind = "write"
    /\ out.mode = "adopt"
    /\ Foreign(out.before)
    /\ HasMarker(out.content)
    /\ out.result = "OwnershipError"

\* C2: a write whose content lacks the marker fails with ValueError in every
\* mode and for every state of the target, which is neither created nor
\* modified.
C2_MissingMarkerFailsFast ==
    (out.kind = "write" /\ ~HasMarker(out.content))
    => /\ out.result = "ValueError"
       /\ out.error.type = "ValueError: missing marker"
       /\ fs[out.path] = out.before

\* C2 witness: markerless content was offered for an absent file under force
C2_Witness ==
    /\ out.kind = "write"
    /\ ~HasMarker(out.content)
    /\ ~out.before.exists
    /\ out.mode = "force"
    /\ out.result = "ValueError"

\* a strict write of a render to a path
StrictRenderWrite(o) ==
    /\ o.kind = "write"
    /\ o.mode = "strict"
    /\ \E c \in FileConfigs : o.content = Rendered(o.path, c)

\* C3: a strict write of a render yields created on an absent file and
\* updated on an owned file that differs; writing the same render again in
\* strict mode, right after a write that did not raise, yields unchanged,
\* never an OwnershipError, and leaves the file as it is.  The same holds of
\* two sync --write runs in a row.
C3_WriteIdempotent ==
    [][ /\ StrictRenderWrite(out')
           => /\ ~fs[out'.path].exists => out'.result = "created"
              /\ (/\ fs[out'.path].exists
                  /\ HasMarker(fs[out'.path].text)
                  /\ fs[out'.path].text # out'.content) => out'.result = "updated"
              /\ (/\ StrictRenderWrite(out)
                  /\ out.path = out'.path
                  /\ out.content = out'.content
                  /\ out.result \in {"created", "updated", "unchanged"})
                 => (out'.result = "unchanged" /\ fs' = fs)
        /\ (/\ out'.kind = "sync" /\ out'.mode = "strict"
            /\ out.kind = "sync" /\ out.mode = "strict"
            /\ out.error = NoError)
           => (out'.ci = "unchanged" /\ out'.just = "unchanged" /\ fs' = fs)
      ]_vars

\* C3 witness: the second of two strict writes found the render in place
C3_Witness ==
    /\ StrictRenderWrite(out)
    /\ out.before = File(out.content)
    /\ out.result = "unchanged"
    /\ fs[out.path] = out.before

\* C4: after a sync --write that wrote both files, while no file is touched,
\* check and doctor report a managed file UP_TO_DATE as long as the config
\* renders the text that was written, and OUT_OF_DATE once the config
\* renders a different text.
C4_DriftRoundTrip ==
    (out.kind \in {"check", "doctor"} /\ hist.ok)
    => \A p \in Paths :
         IF Rendered(p, conf) = Rendered(p, hist.conf)
         THEN out.files[p].ok /\ out.files[p].msg = "is up to date"
         ELSE ~out.files[p].ok /\ out.files[p].code = ERR_FILE_OUTDATED

\* C4 witness: the config changed after a sync and check found the workflow
\* out of date and the justfile up to date
C4_Witness ==
    /\ out.kind = "check"
    /\ hist.ok
    /\ conf # hist.conf
    /\ out.files[CiPath].code = ERR_FILE_OUTDATED
    /\ out.files[JustPath].ok

\* C5: the drift status is decided by (exists, marker present, content
\* equal): absent -> INTENT201; present without marker -> INTENT202 whatever
\* the content; marker and different content -> INTENT203; marker and equal
\* content -> ok without code.  Only the last is ok.
C5_DriftClassification ==
    out.kind \in {"check", "doctor"}
    => \A p \in Paths :
         LET f == fs[p]
             owned == f.exists /\ HasMarker(f.text)
             equal == f.exists /\ f.text = Rendered(p, conf)
             r == out.files[p]
         IN /\ ~f.exists => r.code = ERR_FILE_MISSING
            /\ Foreign(f) => r.code = ERR_FILE_UNOWNED
            /\ (owned /\ ~equal) => r.code = ERR_FILE_OUTDATED
            /\ (owned /\ equal) => r.code = NoCode
            /\ r.ok <=> (owned /\ equal)
            /\ r.ok <=> (r.code = NoCode)

\* C5 witness: a check met a foreign justfile and an owned, edited workflow
C5_Witness ==
    /\ out.kind = "check"
    /\ Foreign(fs[JustPath])
    /\ out.files[JustPath].code = ERR_FILE_UNOWNED
    /\ out.files[CiPath].code = ERR_FILE_OUTDATED

\* C27: the writes of sync --write are not transactional: the workflow is
\* written first and the justfile second; when the second write raises
\* OwnershipError the run exits 1 and the workflow keeps the render just
\* written, and sync --write run again once the obstacle is gone reports
\* the workflow unchanged and writes the justfile.
C27_NotTransactional ==
    out.kind = "sync" /\ out.error.type = "OwnershipError" =>
        /\ out.exit = 1
        /\ out.error.path = CiPath =>
              /\ out.just = "not reached"
              /\ fs = out.before
        /\ out.error.path = JustPath =>
              /\ out.ci \in {"created", "updated", "unchanged"}
              /\ fs[CiPath] = File(Rendered(CiPath, conf))
              /\ fs[JustPath] = out.before[JustPath]
              /\ \A f \in UserFiles :
                    ~Foreign(f) =>
                        LET again == SyncWrites([fs EXCEPT ![JustPath] = f],
                                                Rendered(CiPath, conf),
                                                Rendered(JustPath, conf), out.mode)
                        IN /\ again.error = NoError
                           /\ again.ci = "unchanged"
                           /\ again.just \in {"created", "updated"}
                           /\ again.files[CiPath] = fs[CiPath]
                           /\ again.files[JustPath] = File(Rendered(JustPath, conf))

\* sync --write created the workflow and then met a justfile of the user's
C27_Witness ==
    /\ out.kind = "sync"
    /\ out.mode = "strict"
    /\ out.error.type = "OwnershipError"
    /\ out.error.path = JustPath
    /\ ~out.before[CiPath].exists
    /\ out.ci = "created"
    /\ fs[CiPath] = File(Rendered(CiPath, conf))
    /\ Foreign(fs[JustPath])
    /\ out.exit = 1

\* what the preview says the strict write will do
Foretold(preview) ==
    IF preview = "Would write" THEN "created"
    ELSE IF preview = "Would update" THEN "updated"
    ELSE IF preview = "No changes" THEN "unchanged"
    ELSE "OwnershipError"

Previews ==
    {"Would write", "Would update", "No changes",
     "Cannot update: exists but is not tool-owned (missing marker)"}

\* sync --write in strict mode, from the files and the config as they are
StrictSync == SyncWrites(fs, Rendered(CiPath, conf), Rendered(JustPath, conf), "strict")

\* the claim as stated: the preview of each file is what sync --write in
\* strict mode then does to it
C29_AsStated ==
    out.kind = "dry_run" =>
        /\ fs = out.before
        /\ Foretold(out.preview[CiPath]) = StrictSync.ci
        /\ Foretold(out.preview[JustPath]) = StrictSync.just

\* C29: sync --dry-run writes no file, and its preview of each generated
\* file is what a strict write_generated_file of that file does from the
\* same state ('Would write' iff it creates the file, 'Would update' iff it
\* replaces an owned file that differs, 'No changes' iff it reports
\* unchanged, 'Cannot update' iff it raises OwnershipError); sync --write in
\* strict mode does just that to the workflow, and to the justfile unless
\* the workflow's write raised, in which case the justfile is not reached.
C29_PreviewAgrees ==
    out.kind = "dry_run" =>
        /\ fs = out.before
        /\ out.exit = 0
        /\ \A p \in Paths :
              /\ out.preview[p] \in Previews
              /\ Foretold(out.preview[p])
                    = write_generated_file(p, fs[p], Rendered(p, conf), "strict").result
        /\ Foretold(out.preview[CiPath]) = StrictSync.ci
        /\ StrictSync.ci # "OwnershipError" => Foretold(out.preview[JustPath]) = StrictSync.just
        /\ StrictSync.ci = "OwnershipError" =>
              /\ StrictSync.just = "not reached"
              /\ StrictSync.files = fs

\* a dry run on an owned workflow that is out of date and a justfile of
\* the user's
C29_Witness ==
    /\ out.kind = "dry_run"
    /\ out.preview[CiPath] = "Would update"
    /\ out.preview[JustPath] = "Cannot update: exists but is not tool-owned (missing marker)"
    /\ StrictSync.ci = "updated"
    /\ StrictSync.just = "OwnershipError"

(***************************************************************************)
(* Claims about the rendering specification.                               *)
(***************************************************************************)

\* C6: render_ci and render_just give the same text for a config whatever
\* the order in which its needs lists, matrix keys, step env keys and step
\* with keys are held.
C6_RenderOrderIndependent == rout.kind # "none" => rout.a = rout.b

\* C6 witness: the workflow of a config with reordered collections was rendered
C6_Witness ==
    /\ rout.kind = "ci"
    /\ held # rcfg
    /\ \E i \in 1..Len(rcfg.ci_jobs) : held.ci_jobs[i].needs # rcfg.ci_jobs[i].needs

\* C7: every render has the marker as its first line and the banner as its
\* second, is recognised as tool-owned, and is never refused by the writer
\* for a missing marker.
C7_MarkerAndBanner ==
    rout.kind # "none"
    => /\ Len(rout.a) >= 2
       /\ rout.a[1] = GENERATED_MARKER
       /\ rout.a[2] = "# DO NOT EDIT"
       /\ HasMarker(rout.a)
       /\ \A f \in UserFiles \cup {File(rout.a)}, m \in Modes :
            write_generated_file(JustPath, f, rout.a, m).result # "ValueError"

\* C7 witness: a justfile was rendered for a config with two commands
C7_Witness == rout.kind = "just" /\ Len(rcfg.commands) = 2

(***************************************************************************)
(* Claims about the versioning specification.  They read the clauses the  *)
(* spec text was written from, and the version tuples as written, not the  *)
(* parser.                                                                 *)
(***************************************************************************)

OpGE == <<">", "=">>
OpLT == <<"<">>

\* the operators the constraint model names; a bare literal counts as ==
ModelOps == { <<"=", "=">>, <<">", "=">>, <<">">>, <<"<">>, <<"<", "=">>, <<"~", "=">>, <<>> }

\* the numbers a well-formed dotted text is written with
TextTuple(t) ==
    CASE t = <<"3", ".", "1", "1">> -> <<3, 11>>
      [] t = <<"3", ".", "1", "2">> -> <<3, 12>>
      [] t = <<"3", ".", "1", "3">> -> <<3, 13>>
      [] t = <<"3", ".", "1", "2", ".", "0">> -> <<3, 12, 0>>
      [] OTHER -> <<>>

\* a < b position by position, a missing position read as 0
PaddedLess(a, b) ==
    LET n == IF Len(a) > Len(b) THEN Len(a) ELSE Len(b)
        at(t, i) == IF i <= Len(t) THEN t[i] ELSE 0
    IN \E i \in 1..n : /\ at(a, i) < at(b, i)
                        /\ \A j \in 1..(i - 1) : at(a, j) = at(b, j)

\* a < b position by position, a proper prefix being smaller
PrefixLess(a, b) ==
    \/ \E i \in 1..Len(a) : /\ i <= Len(b)
                              /\ a[i] < b[i]
                              /\ \A j \in 1..(i - 1) : a[j] = b[j]
    \/ Len(a) < Len(b) /\ \A j \in 1..Len(a) : a[j] = b[j]

SatisfiesDone == vout.op = "satisfies"
VerTuple == TextTuple(ver)

C9_ZeroPadded ==
    (/\ SatisfiesDone
     /\ Len(clauses) = 1
     /\ VerTuple # <<>>
     /\ ~PaddedLess(VerTuple, TextTuple(clauses[1].bound))
     /\ ~PaddedLess(TextTuple(clauses[1].bound), VerTuple))
    => /\ clauses[1].op = OpGE => vout.r = "True"
       /\ clauses[1].op = OpLT => vout.r = "False"

\* the lower bounds of the spec as C10 reads them: the bounds of the >= and
\* > clauses
LowerBounds ==
    { TextTuple(clauses[i].bound) :
        i \in { j \in 1..Len(clauses) : clauses[j].op \in {OpGE, <<">">>} } }

\* C10: for a declared version D and a ranged spec E that D satisfies, the
\* cross-check reports BROADER iff max_lower_bound(E) < D and a match
\* otherwise; BROADER is ok with a note when strict is off and fails with
\* INTENT101 when strict is on.  D = 3.12 with ">=3.11,<3.13" is BROADER.
C10_Broader ==
    (/\ vout.op = "versions"
     /\ pystatus = "ok"
     /\ check_requires_python_range(ver, spec) = "True")
    => LET broader == \E lb \in LowerBounds :
                          /\ \A o \in LowerBounds : ~PaddedLess(lb, o)
                          /\ PaddedLess(lb, VerTuple)
       IN IF broader
          THEN /\ vout.r.kind = "broader"
               /\ vout.r.ok = ~vout.strict
               /\ vout.r.note = ~vout.strict
               /\ vout.r.code = IF vout.strict THEN ERR_VERSION ELSE NoCode
          ELSE vout.r = VResult(TRUE, "ok_range", FALSE, NoCode)

\* the bounds of the clauses with one of the given operators
BoundsOf(ops) ==
    { TextTuple(clauses[i].bound) :
        i \in { j \in 1..Len(clauses) : clauses[j].op \in ops } }

LowerDone == vout.op = "lower"

FiveCommands == {"sync", "check", "doctor", "show", "reconcile"}

\* the name a raw string field holds
RawName(raw) == Flatten(Strip(raw.v))

\* the names [commands] declares
TableNames(d) == { Flatten(d.commands[i].key) : i \in 1..Len(d.commands) }

\* the command names the CI steps, the summary metrics and the check
\* assertions of the document refer to
References(d) ==
    { RawName(d.steps[i].command) : i \in { j \in 1..Len(d.steps) : d.steps[j].command.t = "str" } }
        \cup { RawName(d.summary.metrics[i].command) : i \in 1..Len(d.summary.metrics) }
        \cup { RawName(d.assertions[i].command) : i \in 1..Len(d.assertions) }

UnknownCommandMessages ==
    { "invalid [ci].jobs[0].steps[i].command (unknown command)",
      "invalid [ci].summary.metrics[i].command (unknown command)",
      "invalid [checks].assertions[i].command (unknown command)" }

Dangling(d) == ~(References(d) \subseteq TableNames(d))

\* C12: a config that load_intent returned has every CI step command, every
\* summary metric command and every assertion command in its command table;
\* a document with an undeclared reference is rejected with an
\* IntentConfigError that says 'unknown command'; check never looks up a
\* command that is not declared.
C12_ReferentialIntegrity ==
    inv.cmd \in FiveCommands /\ inv.load # "not_attempted" =>
        /\ inv.load = "ok" => ~Dangling(doc)
        /\ doc.state = "ok" /\ doc.commands # <<>> /\ Dangling(doc) =>
              /\ inv.load = "failed"
              /\ inv.exit = 2
              /\ inv.code = ERR_CONFIG_INVALID
              /\ inv.report.message \in UnknownCommandMessages
        /\ inv.cmd = "check" =>
              /\ inv.code # "KeyError"
              /\ \A i \in 1..Len(inv.ran) : inv.ran[i] \in TableNames(doc)

\* check was run on a document whose second assertion names a command that
\* is not declared
C12_Witness ==
    /\ inv.cmd = "check"
    /\ Len(doc.assertions) = 2
    /\ RawName(doc.assertions[2].command) \notin TableNames(doc)
    /\ inv.load = "failed"
    /\ inv.report.message = "invalid [checks].assertions[i].command (unknown command)"

\* strict as the claim resolves it: the flag, else [policy].strict, else the
\* pack's default, else false
ExpectedStrict(d, flag) ==
    IF flag = "strict" THEN TRUE
    ELSE IF flag = "no-strict" THEN FALSE
    ELSE IF d.policy.strict.t = "bool" THEN d.policy.strict.b
    ELSE IF d.policy.pack.t = "str" THEN RawName(d.policy.pack) = "strict"
    ELSE FALSE

\* the --strict/--no-strict flag of a check or doctor invocation
StrictFlag(i) == IF i.cmd = "check" THEN i.args.strict ELSE i.args

\* C13: check and doctor resolve strict by precedence: --strict/--no-strict
\* if given, else [policy].strict if set, else the pack's default (strict ->
\* true, default -> false), else false; the version cross-check runs under
\* the resolved value (a requires-python that is not a string is an error
\* iff strict).
C13_StrictPrecedence ==
    inv.cmd \in {"check", "doctor"} /\ inv.load = "ok" /\ inv.report.kind = inv.cmd =>
        /\ inv.report.strict = ExpectedStrict(doc, StrictFlag(inv))
        /\ disk.pyproject = File(PyprojectInvalid) =>
              inv.report.versions.ok = ~ExpectedStrict(doc, StrictFlag(inv))

\* check without a flag, on pack = "strict" with strict = false, over a
\* pyproject.toml whose requires-python is a number: the explicit field wins
C13_Witness ==
    /\ inv.cmd = "check"
    /\ inv.args.strict = "none"
    /\ doc.policy.pack.t = "str"
    /\ RawName(doc.policy.pack) = "strict"
    /\ doc.policy.strict.t = "bool"
    /\ ~doc.policy.strict.b
    /\ disk.pyproject = File(PyprojectInvalid)
    /\ inv.load = "ok"
    /\ ~inv.report.strict
    /\ inv.report.versions.ok

ConflictingFlags(flags) ==
    \/ flags.write /\ flags.dry_run
    \/ flags.adopt /\ flags.force
    \/ flags.adopt /\ ~flags.write
    \/ flags.force /\ ~flags.write
    \/ flags.show_json /\ flags.write
    \/ flags.explain /\ flags.write

CheckDone == inv.cmd = "check" /\ inv.load = "ok" /\ inv.report.kind = "check"

\* the commands the assertions, gates and metrics of the document name
ReferencedCommands(d) ==
    { RawName(d.assertions[i].command) : i \in 1..Len(d.assertions) }
        \cup { RawName(d.gates[i].command) : i \in 1..Len(d.gates) }
        \cup { RawName(d.summary.metrics[i].command) : i \in 1..Len(d.summary.metrics) }

\* what the report says of each assertion, gate and metric
Consumers ==
    { [kind |-> "assertion", i |-> i, command |-> inv.report.checks[i].command,
       path |-> inv.report.checks[i].path, ok |-> inv.report.checks[i].ok,
       reason |-> inv.report.checks[i].reason, code |-> inv.report.checks[i].code,
       resolved |-> inv.report.checks[i].resolved,
       value |-> inv.report.checks[i].actual] : i \in 1..Len(inv.report.checks) }
    \cup
    { [kind |-> "gate", i |-> i, command |-> inv.report.gates[i].command,
       path |-> inv.report.gates[i].path, ok |-> inv.report.gates[i].ok,
       reason |-> inv.report.gates[i].reason, code |-> inv.report.gates[i].code,
       resolved |-> inv.report.gates[i].resolved,
       value |-> inv.report.gates[i].actual] : i \in 1..Len(inv.report.gates) }
    \cup
    { [kind |-> "metric", i |-> i, command |-> inv.report.metrics[i].command,
       path |-> inv.report.metrics[i].path, ok |-> inv.report.metrics[i].ok,
       reason |-> inv.report.metrics[i].reason, code |-> inv.report.metrics[i].code,
       resolved |-> inv.report.metrics[i].resolved,
       value |-> inv.report.metrics[i].value] : i \in 1..Len(inv.report.metrics) }

Occurrences(seq, x) == Cardinality({ i \in 1..Len(seq) : seq[i] = x })

\* the command exited non-zero or printed something that is not JSON
Failed(outcome) == outcome.returncode # 0 \/ ~outcome.json

ResolveDone == inv.cmd = "resolve"

\* paths that name nothing in either payload
UnresolvablePaths == ResolvePaths \ {PathFirst, PathScore, PathPending, <<"a", ".", "b">>}

C20_Exhaustive ==
    CheckDone =>
        /\ DOMAIN inv.report.files = Paths
        /\ disk = StaleDisk =>
              /\ inv.report.files[CiPath].code = ERR_FILE_MISSING
              /\ inv.report.files[JustPath].code = ERR_FILE_UNOWNED
        /\ disk # StaleDisk => \A p \in Paths : inv.report.files[p].ok
        /\ Len(inv.report.checks) = Len(doc.assertions)
        /\ \A i \in 1..Len(doc.assertions) :
              /\ inv.report.checks[i].command = RawName(doc.assertions[i].command)
              /\ inv.report.checks[i].path = Strip(doc.assertions[i].path.v)
              /\ inv.report.checks[i].op = doc.assertions[i].op
              /\ inv.report.checks[i].expected = doc.assertions[i].value
        /\ Len(inv.report.metrics) = Len(doc.summary.metrics)
        /\ \A i \in 1..Len(doc.summary.metrics) :
              /\ inv.report.metrics[i].label = doc.summary.metrics[i].label
              /\ inv.report.metrics[i].command = RawName(doc.summary.metrics[i].command)

\* the first of two assertions and the first of two metrics fail, on a disk
\* where both files drifted, and the second ones are still evaluated
C20_Witness ==
    /\ CheckDone
    /\ disk = StaleDisk
    /\ doc.assertions = <<AssertSixth, AssertScore>>
    /\ Len(doc.summary.metrics) = 2
    /\ ~inv.report.checks[1].ok
    /\ inv.report.checks[2].ok
    /\ ~inv.report.metrics[1].ok
    /\ inv.report.metrics[2].ok

(***************************************************************************)
(* Claims about the exit codes of check.                                   *)
(***************************************************************************)

\* what each hook of a finished invocation exited with
ExitsOf(hooks) == [i \in 1..Len(hooks) |-> hooks[i].exit_code]

\* every part of a check report is ok
Clean(report, hooks) ==
    /\ report.versions.ok
    /\ \A p \in Paths : report.files[p].ok
    /\ AllOk(hooks)
    /\ AllOk(report.checks)
    /\ AllOk(report.gates)
    /\ AllOk(report.metrics)

C26_UnparseableIsInvalid ==
    inv.cmd = "check" /\ inv.load = "ok" /\ disk.pyproject = File(PyprojectBroken) =>
        /\ inv.report.kind = "check"
        /\ inv.report.versions = _check_versions(load_intent(doc).cfg.python_version,
                                                 inv.report.strict, "invalid", <<>>)
        /\ ~inv.report.strict =>
              /\ inv.report.versions.ok
              /\ inv.exit = 0 <=> Clean(inv.report, inv.hooks)
        /\ inv.report.strict =>
              /\ ~inv.report.versions.ok
              /\ inv.report.versions.code = ERR_VERSION
              /\ inv.exit = 1

\* check on a pyproject.toml that is not TOML: a traceback and exit code 1,
\* whether strict is in effect or not
C26_CheckCrashes ==
    /\ inv.cmd = "check"
    /\ inv.load = "ok"
    /\ inv.args.strict = "no-strict"
    /\ disk.pyproject = File(PyprojectBroken)
    /\ \A p \in Paths : DriftReport(disk.files, load_intent(doc).cfg)[p].ok
    /\ inv.report.kind = "traceback"
    /\ inv.code = "TOMLDecodeError"
    /\ inv.exit = 1
    /\ inv.hooks = <<>>

\* C28: in sync --write the generate hooks run only after both generated
\* files were written without an error, none when a write raised
\* OwnershipError; a hook that exits non-zero makes the run exit 1 with
\* INTENT301 and leaves both files holding exactly their renders, so that a
\* check that follows reports them up to date.
C28_HooksAfterWrites ==
    inv.cmd = "sync" =>
        /\ inv.code = ERR_OWNERSHIP => inv.hooks = <<>> /\ inv.exit = 1
        /\ inv.load = "ok" /\ inv.report.kind = "sync" /\ inv.args.write
           /\ inv.code # ERR_OWNERSHIP =>
              /\ Len(inv.hooks) = Len(load_intent(doc).cfg.plugin_generate_hooks)
              /\ \A i \in 1..Len(inv.hooks) :
                    /\ inv.hooks[i].stage = "generate"
                    /\ inv.hooks[i].command = load_intent(doc).cfg.plugin_generate_hooks[i]
              /\ inv.exit = IF AllOk(inv.hooks) THEN 0 ELSE 1
        /\ inv.hooks # <<>> =>
              /\ inv.args.write
              /\ \A p \in Paths : disk.files[p] = File(Generated(p, load_intent(doc).cfg))
        /\ ~AllOk(inv.hooks) =>
              /\ inv.exit = 1
              /\ inv.code = ERR_PLUGIN
              /\ \A p \in Paths :
                    /\ disk.files[p] = File(Generated(p, load_intent(doc).cfg))
                    /\ check(doc, disk, "none", "text", probe,
                             [i \in 1..Len(doc.check_hooks) |-> 0]).report.files[p].ok

\* sync --write wrote both files and its generate hook exited 1
C28_Witness ==
    /\ inv.cmd = "sync"
    /\ inv.args.write
    /\ inv.written = Paths
    /\ Len(inv.hooks) = 1
    /\ inv.hooks[1].exit_code = 1
    /\ inv.exit = 1
    /\ inv.code = ERR_PLUGIN
    /\ \A p \in Paths : DriftReport(disk.files, load_intent(doc).cfg)[p].ok

(***************************************************************************)
(* Claims about reconcile.                                                 *)
(***************************************************************************)

\* reconcile ran with a config that loaded
ReconcileDone == inv.cmd = "reconcile" /\ inv.load = "ok"
PlanRun == ReconcileDone /\ inv.args.plan /\ ~inv.args.apply
ApplyRun == ReconcileDone /\ inv.args.apply /\ ~inv.args.plan

\* the run got as far as its report
Reported == inv.report.kind = "reconcile"

\* C22: reconcile --plan never changes the filesystem: whatever the config
\* and whatever pyproject.toml, .python-version and .tool-versions hold
\* (missing, aligned, drifted, invalid), each file exists after the run iff
\* it existed before, with the same content, and the command exits 0.
C22_PlanNeverMutates ==
    PlanRun =>
        /\ inv.written = {}
        /\ \A p \in VersionPaths : VersionFile(inv.disk, p) = VersionFile(disk, p)
        /\ Reported => inv.before = disk
        /\ inv.exit = 0

\* reconcile --plan on a pyproject.toml that is not TOML: a traceback and
\* exit code 1, no file touched
C22_PlanCrashes ==
    /\ PlanRun
    /\ disk.pyproject = File(PyprojectBroken)
    /\ inv.report.kind = "traceback"
    /\ inv.code = "TOMLDecodeError"
    /\ inv.exit = 1
    /\ inv.written = {}

\* what reconcile --plan says of one file of a disk
PlanLine(dsk, path) == reconcile(doc, dsk, TRUE, FALSE, FALSE).report.files[path]

\* the file holds the value reconcile recommends for the declared version
HoldsRecommended(file, path, target) ==
    IF path = PyprojectPath
    THEN /\ ~read_pyproject_python(file).raised
         /\ read_pyproject_python(file).status = "ok"
         /\ read_pyproject_python(file).value = RecommendedPyproject(target, _next_minor(target))
    ELSE IF path = PythonVersionPath THEN _read_python_version_file(file) = target
    ELSE _read_tool_versions_python(file) = target

\* C23: reconcile --apply without --allow-existing writes only the files
\* that were missing before the run, each created with its recommended
\* value, and leaves every file that was there byte for byte as it was;
\* each such file that is not aligned is reported skipped and the run exits
\* 1, and a run that skipped nothing exits 0.
C23_ApplyOnlyCreates ==
    ApplyRun /\ ~inv.args.allow_existing /\ Reported =>
        /\ \A p \in VersionPaths :
              LET was == VersionFile(inv.before, p)
                  now == VersionFile(disk, p)
              IN /\ was.exists => now = was
                 /\ ~was.exists =>
                       /\ now.exists
                       /\ HoldsRecommended(now, p, load_intent(doc).cfg.python_version)
                       /\ inv.report.files[p] = "created"
                 /\ was.exists /\ PlanLine(inv.before, p) # "aligned" =>
                       /\ inv.report.files[p] \in {"skipped", "invalid/unreadable"}
                       /\ inv.report.unresolved
        /\ inv.exit = IF inv.report.unresolved THEN 1 ELSE 0
        /\ inv.report.unresolved <=>
              \E p \in VersionPaths : inv.report.files[p] \in {"skipped", "invalid/unreadable"}

\* reconcile --apply, with no --allow-existing, found a .python-version of
\* one empty line and wrote the declared version over it
C23_BlankOverwritten ==
    /\ ApplyRun
    /\ ~inv.args.allow_existing
    /\ Reported
    /\ inv.before.python_version = File(<<"\n">>)
    /\ disk.python_version # inv.before.python_version
    /\ inv.report.files[PythonVersionPath] = "updated"
    /\ PythonVersionPath \in inv.written

\* the declared version of the config reconcile loaded
DeclaredVersion == load_intent(doc).cfg.python_version

\* the two versions are written with the same major and minor number
SameMinor(lhs, rhs) ==
    /\ parse_version(lhs) # NoVersion
    /\ parse_version(rhs) # NoVersion
    /\ Len(parse_version(lhs)) >= 2
    /\ Len(parse_version(rhs)) >= 2
    /\ parse_version(lhs)[1] = parse_version(rhs)[1]
    /\ parse_version(lhs)[2] = parse_version(rhs)[2]

\* the greatest '>=' bound of the clauses of a requires-python spec
RequiresLower(requires) == max_lower_bound(StripNonEmpty(Split(requires, ",")))

\* the declared version satisfies the spec, whose lower bound has the
\* declared major and minor number
RangeAligned(requires, target) ==
    /\ check_requires_python_range(target, requires) = "True"
    /\ RequiresLower(requires) # NoVersion
    /\ Len(RequiresLower(requires)) >= 2
    /\ RequiresLower(requires)[1] = parse_version(target)[1]
    /\ RequiresLower(requires)[2] = parse_version(target)[2]

\* C25: reconcile classifies by major.minor only: a .python-version or a
\* .tool-versions python entry is aligned iff its major.minor is the
\* declared one, whatever its patch level, and a requires-python spec is
\* aligned iff the declared version satisfies it and its lower bound has
\* the declared major.minor; so with 3.12 declared '>=3.12,<3.13', '3.12.6'
\* and 'python 3.12.4' are aligned and '>=3.11,<3.13' and '3.11.9' drift;
\* the recommended range is '>=D,<D.next-minor'.
C25_MajorMinorOnly ==
    PlanRun /\ Reported =>
        /\ inv.report.files[PythonVersionPath] = "aligned" <=>
              SameMinor(_read_python_version_file(disk.python_version), DeclaredVersion)
        /\ inv.report.files[ToolVersionsPath] = "aligned" <=>
              SameMinor(_read_tool_versions_python(disk.tool_versions), DeclaredVersion)
        /\ read_pyproject_python(disk.pyproject).status = "ok" =>
              /\ inv.report.files[PyprojectPath] \in {"aligned", "drift"}
              /\ inv.report.files[PyprojectPath] = "aligned" <=>
                    RangeAligned(read_pyproject_python(disk.pyproject).value, DeclaredVersion)
        /\ DeclaredVersion = V312 =>
              /\ RecommendedPyproject(DeclaredVersion, _next_minor(DeclaredVersion))
                    = <<">", "=", "3", ".", "1", "2", ",", "<", "3", ".", "1", "3">>
              /\ disk.pyproject = File(PyprojectAligned) =>
                    inv.report.files[PyprojectPath] = "aligned"
              /\ disk.pyproject = File(PyprojectDrift) =>
                    inv.report.files[PyprojectPath] = "drift"

\* with 3.12 declared, reconcile --plan reports '3.12.6' and 'python 3.12.4'
\* aligned and requires-python = ">=3.12,<3.13" drift
C25_AlignedReportedDrift ==
    /\ PlanRun
    /\ Reported
    /\ DeclaredVersion = V312
    /\ disk.pyproject = File(PyprojectAligned)
    /\ disk.python_version = File(<<"3", ".", "1", "2", ".", "6", "\n">>)
    /\ disk.tool_versions = File(<<"p", "y", "t", "h", "o", "n", " ", "3", ".", "1", "2", ".", "4", "\n">>)
    /\ inv.report.files[PythonVersionPath] = "aligned"
    /\ inv.report.files[ToolVersionsPath] = "aligned"
    /\ inv.report.files[PyprojectPath] = "drift"
    /\ inv.exit = 0

\* C30: reconcile converges: whenever reconcile --apply --allow-existing
\* exits 0, a reconcile --plan run right after it classifies all three
\* files as aligned, and a second reconcile --apply, with or without
\* --allow-existing, exits 0 and changes no file.
C30_Converges ==
    ApplyRun /\ inv.args.allow_existing /\ inv.exit = 0 =>
        /\ \A p \in VersionPaths : PlanLine(disk, p) = "aligned"
        /\ \A allow_existing \in BOOLEAN :
              /\ reconcile(doc, disk, FALSE, TRUE, allow_existing).exit = 0
              /\ reconcile(doc, disk, FALSE, TRUE, allow_existing).written = {}

\* after a reconcile --apply --allow-existing that exited 0, the plan calls
\* pyproject.toml drift and a plain --apply skips it and exits 1
C30_SecondApplyFails ==
    /\ ApplyRun
    /\ inv.args.allow_existing
    /\ inv.exit = 0
    /\ inv.written = VersionPaths
    /\ PlanLine(disk, PyprojectPath) = "drift"
    /\ PlanLine(disk, PythonVersionPath) = "aligned"
    /\ PlanLine(disk, ToolVersionsPath) = "aligned"
    /\ reconcile(doc, disk, FALSE, TRUE, FALSE).exit = 1
    /\ reconcile(doc, disk, FALSE, TRUE, FALSE).report.files[PyprojectPath] = "skipped"
    /\ reconcile(doc, disk, FALSE, TRUE, TRUE).exit = 0
    /\ reconcile(doc, disk, FALSE, TRUE, TRUE).written = {}

(***************************************************************************)
(* Claims about the three writers of reconcile.                            *)
(***************************************************************************)

WriterNames ==
    {"_upsert_pyproject_requires_python", "_write_python_version",
     "_upsert_tool_versions_python"}

\* the file the writer named fn writes, on the disk
WrittenFile(fn) ==
    IF fn = "_upsert_pyproject_requires_python" THEN disk.pyproject
    ELSE IF fn = "_write_python_version" THEN disk.python_version
    ELSE disk.tool_versions

\* the writer named fn, called on a file
Write(fn, file, value) ==
    IF fn = "_upsert_pyproject_requires_python"
    THEN _upsert_pyproject_requires_python(file, value)
    ELSE IF fn = "_write_python_version" THEN _write_python_version(file, value)
    ELSE _upsert_tool_versions_python(file, value)

RECURSIVE Embeds(_, _)
\* the lines of b are found in a, in the order of b
Embeds(b, a) ==
    IF b = <<>> THEN TRUE
    ELSE IF a = <<>> THEN FALSE
    ELSE IF Head(b) = Head(a) THEN Embeds(Tail(b), Tail(a))
    ELSE Embeds(b, Tail(a))

\* the lines but the idx-th; all of them for idx = 0
Without(lines, idx) == SubSeq(lines, 1, idx - 1) \o SubSeq(lines, idx + 1, Len(lines))

\* C24: each of the three writers is idempotent and local: called a second
\* time with the same value it reports 'unchanged' and leaves the file as
\* it is, and on a file that was there it inserts or replaces one line
\* only, every other line of the file being kept, in the order it had.
C24_IdempotentLocal ==
    inv.cmd \in WriterNames =>
        /\ Write(inv.cmd, WrittenFile(inv.cmd), inv.value).action = "unchanged"
        /\ ~Write(inv.cmd, WrittenFile(inv.cmd), inv.value).changed
        /\ Write(inv.cmd, WrittenFile(inv.cmd), inv.value).after = WrittenFile(inv.cmd)
        /\ inv.action = "unchanged" <=> WrittenFile(inv.cmd) = inv.before
        /\ inv.before.exists =>
              \E idx \in 0..Len(splitlines(inv.before.text)) :
                  Embeds(Without(splitlines(inv.before.text), idx),
                         splitlines(WrittenFile(inv.cmd).text))

\* _write_python_version found a .python-version of two lines and left one
C24_LineLost ==
    /\ inv.cmd = "_write_python_version"
    /\ inv.value = V312
    /\ inv.before = File(<<"3", ".", "1", "1", ".", "9", "\n", "3", ".", "1", "0", ".", "4", "\n">>)
    /\ inv.action = "updated"
    /\ disk.python_version = File(<<"3", ".", "1", "2", "\n">>)

====
